---- MODULE Spec2Model ----
(***************************************************************************)
(* Model of the View Carve add-on (allen-marshall/blender-view-carve):     *)
(* projection of carver geometry through the viewport, extraction of path  *)
(* shapes from faceless meshes, extrusion of a triangulated 2D shape into  *)
(* a stencil mesh, and the lifetime of the Blender objects and mesh        *)
(* datablocks created by the Viewport Stencil Carve operator.              *)
(*                                                                         *)
(* Several specifications share the module's variables:                    *)
(*   SpecProject  _vp_plane_project_pt on one point                        *)
(*   SpecWalk     the edge-following walk of a faceless carver mesh        *)
(*   SpecMesh     the vertex/face/edge construction of a stencil mesh      *)
(*   SpecLift     the 3D vertices of a stencil mesh and their projection   *)
(*                back into the viewport plane                             *)
(*   SpecPaths    the rings _paths_to_stencil_shape makes of its paths     *)
(*   SpecStencil  _stencil_shape_to_stencil_mesh on one shape, with the    *)
(*                triangulation, as carvers_to_stencil_meshes calls it     *)
(*   SpecPoll     VIEW_CARVE_OT_stencil.poll on any context               *)
(*   Spec         VIEW_CARVE_OT_stencil.execute and the batch function     *)
(*                carvers_to_stencil_meshes it calls                       *)
(***************************************************************************)
EXTENDS Integers, Sequences, FiniteSets, TLC

VARIABLES
    \* _vp_plane_project_pt
    to_cam_matrix,      \* the 4x4 matrix applied to the point
    pt,                 \* the 3D input point
    projected,          \* the outcome of the call
    \* _faceless_carver_mesh_to_stencil_shape
    bm_verts,           \* number of vertices of carver_bmesh (vertices 1..bm_verts)
    bm_edges,           \* the edges of carver_bmesh, as 2-element vertex sets
    vert_idx,           \* position of the for loop over carver_bmesh.verts
    vert_paths,         \* the paths recovered so far
    start_verts_to_ignore,
    \* _stencil_shape_to_stencil_mesh (geometry)
    num_vertices_2d,    \* the number of vertices of the triangulated shape
    triangles_2d,       \* the triangles of the triangulated shape
    tuple_order,        \* how tuple(edge_set) orders the two indices of an edge
    mesh_data,          \* vertices/edges/faces handed to from_pydata
    \* Blender's data and context
    bpy,                \* bpy.data.objects, bpy.data.meshes, the selection, the
                        \* active object and context.mode
    next_id,            \* the next unused object or datablock identity
    \* VIEW_CARVE_OT_stencil: the operator's properties
    prop_pieces_to_keep,
    prop_union_carves,
    prop_delete_carvers,
    \* VIEW_CARVE_OT_stencil.execute: its locals and what it returned
    orig_target,
    carver_objs,
    exec_stencil_mesh_objs,   \* execute's stencil_mesh_objs
    targets,
    new_objs,
    applied_ops,        \* the boolean modifiers applied so far, in order
    result,             \* "none" until execute returns FINISHED or CANCELLED
    reports,            \* the types of the reports made with self.report
    \* VIEW_CARVE_OT_stencil.poll
    context,            \* what poll reads of the context besides bpy: whether
                        \* region_data and the scene's collection are there,
                        \* and the number of modifiers of the active object
    poll_result,        \* "none" until poll returns TRUE or FALSE
    \* carvers_to_stencil_meshes: its locals
    carver_idx,         \* position of the comprehension over carvers
    stencil_shapes,
    shape_idx,          \* position of the loop over stencil_shapes
    stencil_mesh_objs,
    exc,                \* the exception being raised, "none" if none
    \* history of the call, kept for the properties
    carver_log,         \* per carver processed: its geometry's facts, its outcome
    built,              \* per stencil built: its object, mesh and source carvers
    partial,            \* the mesh and object a failed stencil build had created
    temp_objs,          \* every temporary object created so far
    temp_meshes,        \* every temporary mesh datablock created so far
    \* _stencil_shape_to_stencil_mesh (3D vertices)
    far_dist,           \* the far_dist argument
    vertices_2d,        \* the vertices of the triangulated shape
    vertices,           \* the 3D vertices built from them
    reprojected,        \* _vp_plane_project_pt of each 3D vertex
    \* _paths_to_stencil_shape
    paths_in,           \* the paths argument: 3D paths
    linear_rings,       \* per path, the coordinates of LinearRing(path)
    \* _triangulate_stencil_shape and _stencil_shape_to_stencil_mesh
    stencil_shape,      \* the shape argument
    shape_for_triangle_lib,   \* the input built for triangle.triangulate
    stencil_mesh_obj,   \* what _stencil_shape_to_stencil_mesh returned
    \* shared by the specifications
    is_orthographic,    \* the camera mode
    pc                  \* the position of the program

projVars == <<to_cam_matrix, pt, projected>>
walkVars == <<bm_verts, bm_edges, vert_idx, vert_paths, start_verts_to_ignore>>
meshVars == <<num_vertices_2d, triangles_2d, tuple_order, mesh_data>>

pollVars == <<context, poll_result>>

execVars == <<pollVars, bpy, next_id, prop_pieces_to_keep, prop_union_carves, prop_delete_carvers,
              orig_target, carver_objs, exec_stencil_mesh_objs, targets, new_objs,
              applied_ops, result, reports, carver_idx, stencil_shapes, shape_idx,
              stencil_mesh_objs, exc, carver_log, built, partial, temp_objs,
              temp_meshes>>

liftVars == <<far_dist, vertices_2d, vertices, reprojected>>
pathVars == <<paths_in, linear_rings>>
shapeVars == <<stencil_shape, shape_for_triangle_lib, stencil_mesh_obj>>
geomVars == <<liftVars, pathVars, shapeVars>>

vars == <<projVars, walkVars, meshVars, execVars, geomVars, is_orthographic, pc>>

-----------------------------------------------------------------------------
(* Bounds of the model. *)

\* coordinates of an input point range over -MaxCoord..MaxCoord
MaxCoord == 1
\* a faceless carver mesh has at most MaxVerts vertices
MaxVerts == 4
\* a triangulated shape has at most MaxTris triangles
MaxTris == 3
\* the operator is run with at most MaxCarvers carver objects selected
MaxCarvers == 2
\* the geometry of a faceless carver has at most MaxCarverVerts vertices
MaxCarverVerts == 2
\* far_dist ranges over 1..MaxFarDist
MaxFarDist == 2
\* the 3D vertices are built for at most MaxLiftVerts 2D vertices
MaxLiftVerts == 2
\* a path handed to _paths_to_stencil_shape has at most MaxPathLen points
MaxPathLen == 4

-----------------------------------------------------------------------------
(* Numbers: Python floats are modelled as exact rationals <<num, den>>. *)

Abs(x) == IF x < 0 THEN -x ELSE x

RECURSIVE Gcd(_, _)
Gcd(a, b) == IF b = 0 THEN a ELSE Gcd(b, a % b)

\* the quotient a / b (b # 0) in lowest terms with a positive denominator
Div(a, b) ==
    LET g == Gcd(Abs(a), Abs(b))
        s == IF b < 0 THEN -1 ELSE 1
    IN  <<(s * a) \div g, (s * b) \div g>>

\* a number that was not divided
Num(a) == <<a, 1>>

-----------------------------------------------------------------------------
(* Matrices and vectors (mathutils.Matrix @ mathutils.Vector). *)

Identity == << <<1, 0, 0, 0>>, <<0, 1, 0, 0>>, <<0, 0, 1, 0>>, <<0, 0, 0, 1>> >>
\* the camera moved back by one unit along its axis
Back1 == << <<1, 0, 0, 0>>, <<0, 1, 0, 0>>, <<0, 0, 1, -1>>, <<0, 0, 0, 1>> >>
\* a half turn about the x axis
TurnX == << <<1, 0, 0, 0>>, <<0, -1, 0, 0>>, <<0, 0, -1, 0>>, <<0, 0, 0, 1>> >>
\* a quarter turn about the y axis
TurnY == << <<0, 0, 1, 0>>, <<0, 1, 0, 0>>, <<-1, 0, 0, 0>>, <<0, 0, 0, 1>> >>
\* a uniform scale by 2 followed by a shift
Scale2 == << <<2, 0, 0, 1>>, <<0, 2, 0, 0>>, <<0, 0, 2, -1>>, <<0, 0, 0, 1>> >>

Matrices == {Identity, Back1, TurnX, TurnY, Scale2}

MatVec(m, v) ==
    [r \in 1..4 |-> m[r][1] * v[1] + m[r][2] * v[2] + m[r][3] * v[3] + m[r][4] * v[4]]

Coords == (0 - MaxCoord)..MaxCoord
Points3 == Coords \X Coords \X Coords

-----------------------------------------------------------------------------
(* _vp_plane_project_pt *)

\* the test that raises 'Carver object is behind the viewport camera'
VpPerspectiveRaises(z) == z >= 0

VpPlaneProjectPt_NoNegate(m, ortho, p) ==
    LET projected_pt == MatVec(m, <<p[1], p[2], p[3], 1>>)
    IN  IF ortho
        THEN [raised |-> FALSE,
              value  |-> <<Num(projected_pt[1]), Num(projected_pt[2])>>]
        ELSE IF VpPerspectiveRaises(projected_pt[3])
             THEN [raised |-> TRUE, value |-> <<>>]
             ELSE [raised |-> FALSE,
                   value  |-> <<Div(projected_pt[1], projected_pt[3]),
                                Div(projected_pt[2], projected_pt[3])>>]

VpPlaneProjectPt(m, ortho, p) ==
    LET projected_pt == MatVec(m, <<p[1], p[2], p[3], 1>>)
    IN  IF ortho
        THEN [raised |-> FALSE,
              value  |-> <<Num(projected_pt[1]), Num(projected_pt[2])>>]
        ELSE IF VpPerspectiveRaises(projected_pt[3])
             THEN [raised |-> TRUE, value |-> <<>>]
             ELSE [raised |-> FALSE,
                   value  |-> <<Div(projected_pt[1], 0 - projected_pt[3]),
                                Div(projected_pt[2], 0 - projected_pt[3])>>]

NoProjection == [raised |-> FALSE, value |-> <<>>]

NoMeshData == [vertices |-> <<>>, edges |-> <<>>, faces |-> <<>>]

WalkIdle ==
    /\ bm_verts = 0 /\ bm_edges = {} /\ vert_idx = 0
    /\ vert_paths = <<>> /\ start_verts_to_ignore = {}

MeshIdle ==
    /\ num_vertices_2d = 0 /\ triangles_2d = <<>>
    /\ tuple_order = "asc" /\ mesh_data = NoMeshData

NoBpy == [objects |-> {}, meshes |-> {}, selected |-> {}, active |-> 0, mode |-> "OBJECT"]

NoPartial == [mesh |-> 0, obj |-> 0]

\* the context of a 3D viewport, the active object without modifiers
ViewportContext == [region_data |-> TRUE, scene |-> TRUE, modifiers |-> 0]

PollIdle == context = ViewportContext /\ poll_result = "none"

ExecIdle ==
    /\ PollIdle
    /\ bpy = NoBpy /\ next_id = 0
    /\ prop_pieces_to_keep = "ALL" /\ prop_union_carves = FALSE
    /\ prop_delete_carvers = FALSE
    /\ orig_target = 0 /\ carver_objs = <<>> /\ exec_stencil_mesh_objs = <<>>
    /\ targets = <<>> /\ new_objs = <<>> /\ applied_ops = <<>> /\ result = "none"
    /\ reports = <<>>
    /\ carver_idx = 0 /\ stencil_shapes = <<>> /\ shape_idx = 0
    /\ stencil_mesh_objs = <<>> /\ exc = "none"
    /\ carver_log = <<>> /\ built = <<>> /\ partial = NoPartial
    /\ temp_objs = {} /\ temp_meshes = {}

ProjIdle == to_cam_matrix = Identity /\ pt = <<0, 0, 0>> /\ projected = NoProjection

LiftIdle == far_dist = 1 /\ vertices_2d = <<>> /\ vertices = <<>> /\ reprojected = <<>>

PathIdle == paths_in = <<>> /\ linear_rings = <<>>

NoShape == [none |-> TRUE, valid |-> TRUE, geoms |-> <<>>]

NoTriangleInput == [none |-> TRUE, vertices |-> <<>>, segments |-> <<>>, holes |-> <<>>]

NoReturn == [returned |-> FALSE, obj |-> 0]

ShapeIdle ==
    /\ stencil_shape = NoShape /\ shape_for_triangle_lib = NoTriangleInput
    /\ stencil_mesh_obj = NoReturn

GeomIdle == LiftIdle /\ PathIdle /\ ShapeIdle

InitProject ==
    /\ to_cam_matrix \in Matrices
    /\ pt \in Points3
    /\ is_orthographic \in BOOLEAN
    /\ projected = NoProjection
    /\ pc = "project"
    /\ WalkIdle /\ MeshIdle /\ ExecIdle /\ GeomIdle

ProjectPt ==
    /\ pc = "project"
    /\ pc' = "projected"
    /\ projected' = VpPlaneProjectPt(to_cam_matrix, is_orthographic, pt)
    /\ UNCHANGED <<to_cam_matrix, pt, is_orthographic, walkVars, meshVars, execVars,
                   geomVars>>

NextProject == ProjectPt

SpecProject == InitProject /\ [][NextProject]_vars

\* the camera-space point of the call's input
CamPt == MatVec(to_cam_matrix, <<pt[1], pt[2], pt[3], 1>>)

\* C2: in perspective mode _vp_plane_project_pt raises exactly when the
\* camera-space depth is >= 0 and otherwise returns (x / -z, y / -z); in
\* orthographic mode it never raises and returns (x, y).
C2_ProjectRaisesIffBehind ==
    pc = "projected" =>
        IF is_orthographic
        THEN /\ ~projected.raised
             /\ projected.value = <<Num(CamPt[1]), Num(CamPt[2])>>
        ELSE /\ projected.raised <=> CamPt[3] >= 0
             /\ ~projected.raised =>
                  /\ projected.value[1][2] > 0 /\ projected.value[2][2] > 0
                  /\ projected.value[1][1] * (0 - CamPt[3]) = CamPt[1] * projected.value[1][2]
                  /\ projected.value[2][1] * (0 - CamPt[3]) = CamPt[2] * projected.value[2][2]

\* C2 witness: a perspective call at depth 0 that raised, the boundary case
C2_Witness ==
    /\ pc = "projected" /\ ~is_orthographic
    /\ CamPt[3] = 0 /\ projected.raised
-----------------------------------------------------------------------------
(* _faceless_carver_mesh_to_stencil_shape: the edge-following walk.        *)
(* A bmesh holds no edge twice and no edge from a vertex to itself, so an  *)
(* edge is a 2-element set of vertices and len(v.link_edges) is the number *)
(* of neighbours of v.                                                     *)

AllEdges(n) == {e \in SUBSET (1..n) : Cardinality(e) = 2}

\* the vertices at the other end of v.link_edges
LinkVerts(edges, v) == {w \in UNION edges : {v, w} \in edges /\ w # v}

\* len(v.link_edges)
NumLinkEdges(edges, v) == Cardinality(LinkVerts(edges, v))

SeqRange(s) == {s[k] : k \in DOMAIN s}

StartsPath_AnyDegree(num_start_edges, ignored) == num_start_edges >= 1 /\ ~ignored

\* the test of the for loop that lets a vertex start a path
StartsPath(num_start_edges, ignored) == num_start_edges \in {1, 2} /\ ~ignored

\* the while loop: vert_path so far, the vertex just left, the vertex that
\* curr_edge leads to
RECURSIVE FollowEdges(_, _, _, _)
FollowEdges(edges, vert_path, curr_vert, next_vert) ==
    LET path == Append(vert_path, next_vert)
    IN  IF next_vert = vert_path[1] \/ NumLinkEdges(edges, next_vert) # 2
        THEN path
        ELSE FollowEdges(edges, path, next_vert,
                         CHOOSE w \in LinkVerts(edges, next_vert) : w # curr_vert)

\* one iteration of the for loop over carver_bmesh.verts: start_vert is the
\* vertex, first_vert the other end of start_edges[0] (any of its link edges
\* may come first); maps the pair <<vert_paths, start_verts_to_ignore>>
StartVertIter(edges, paths, ignore, start_vert, first_vert) ==
    IF StartsPath(NumLinkEdges(edges, start_vert), start_vert \in ignore)
    THEN LET vert_path == FollowEdges(edges, <<start_vert>>, start_vert, first_vert)
         IN  <<Append(paths, vert_path), ignore \cup SeqRange(vert_path)>>
    ELSE <<paths, ignore>>

\* the choices for the other end of start_edges[0]
FirstVerts(edges, v) ==
    IF LinkVerts(edges, v) = {} THEN {v} ELSE LinkVerts(edges, v)

InitWalk ==
    /\ bm_verts \in 0..MaxVerts
    /\ bm_edges \in SUBSET AllEdges(bm_verts)
    /\ vert_idx = 1
    /\ vert_paths = <<>>
    /\ start_verts_to_ignore = {}
    /\ pc = "walk"
    /\ is_orthographic = TRUE
    /\ ProjIdle /\ MeshIdle /\ ExecIdle /\ GeomIdle

\* len(list(carver_bmesh.verts)) <= 0: return None
WalkNoVerts ==
    /\ pc = "walk" /\ bm_verts <= 0
    /\ pc' = "none"
    /\ UNCHANGED <<walkVars, projVars, meshVars, execVars, geomVars, is_orthographic>>

\* one iteration of the for loop
WalkStartVert ==
    /\ pc = "walk" /\ bm_verts > 0 /\ vert_idx <= bm_verts
    /\ \E first_vert \in FirstVerts(bm_edges, vert_idx) :
         LET r == StartVertIter(bm_edges, vert_paths, start_verts_to_ignore,
                                vert_idx, first_vert)
         IN  /\ vert_paths' = r[1]
             /\ start_verts_to_ignore' = r[2]
    /\ vert_idx' = vert_idx + 1
    /\ UNCHANGED <<bm_verts, bm_edges, pc, projVars, meshVars, execVars, geomVars,
                   is_orthographic>>

\* the loop is over: the paths go to _paths_to_stencil_shape
WalkFinished ==
    /\ pc = "walk" /\ bm_verts > 0 /\ vert_idx > bm_verts
    /\ pc' = "paths"
    /\ UNCHANGED <<walkVars, projVars, meshVars, execVars, geomVars, is_orthographic>>

NextWalk == WalkNoVerts \/ WalkStartVert \/ WalkFinished

SpecWalk == InitWalk /\ [][NextWalk]_vars

Degree(v) == NumLinkEdges(bm_edges, v)

\* the vertices connected to v by edges of the mesh
RECURSIVE Reach(_)
Reach(S) ==
    LET T == S \cup UNION {LinkVerts(bm_edges, v) : v \in S}
    IN  IF T = S THEN S ELSE Reach(T)

\* the connected chains of the mesh, as vertex sets
Chains == {Reach({v}) : v \in 1..bm_verts}

IsCycle(chain) == \A v \in chain : Degree(v) = 2

PathsOf(chain) == {k \in DOMAIN vert_paths : SeqRange(vert_paths[k]) \subseteq chain}

IsClosedPath(path) == path[1] = path[Len(path)]

C9_EachChainOnce ==
    (pc = "paths" /\ \A v \in 1..bm_verts : Degree(v) \in {1, 2}) =>
        \A chain \in Chains :
            /\ Cardinality(PathsOf(chain)) = 1
            /\ \A k \in PathsOf(chain) :
                 /\ SeqRange(vert_paths[k]) = chain
                 /\ IsClosedPath(vert_paths[k]) <=> IsCycle(chain)
-----------------------------------------------------------------------------
(* _stencil_shape_to_stencil_mesh: vertices, faces and edges of the mesh.  *)
(* Vertex indices start at 0, as in the lists handed to from_pydata.       *)

\* the three edges of a triangle, as the code builds them
TriEdges(tri) == <<{tri[1], tri[2]}, {tri[2], tri[3]}, {tri[3], tri[1]}>>

\* edge_counts[e]
EdgeCount(tris, e) ==
    Cardinality({x \in (DOMAIN tris) \X (1..3) : TriEdges(tris[x[1]])[x[2]] = e})

\* the elements of a list in the order of their first occurrence: the keys
\* of a dict, or an OrderedSet, filled from the list
OrderedSetOf(list) ==
    LET firsts == {k \in DOMAIN list : \A j \in 1..(k - 1) : list[j] # list[k]}
        ordered == [i \in 1..Cardinality(firsts) |->
                       list[CHOOSE k \in firsts :
                                Cardinality({j \in firsts : j < k}) = i - 1]]
    IN  SubSeq(ordered, 1, Cardinality(firsts))

\* the keys of edge_counts in insertion order
EdgeKeys(tris) ==
    OrderedSetOf([i \in 1..(3 * Len(tris)) |->
                     TriEdges(tris[((i - 1) \div 3) + 1])[((i - 1) % 3) + 1]])

Min2(e) == CHOOSE a \in e : \A b \in e : a <= b
Max2(e) == CHOOSE a \in e : \A b \in e : a >= b

\* tuple(edge_set): the order in which a set yields its elements is not
\* fixed by the language; three orders are modelled
TupleOrders == {"asc", "desc", "mixed"}

EdgeTuple(order, e) ==
    IF order = "asc" \/ (order = "mixed" /\ (Min2(e) + Max2(e)) % 2 = 0)
    THEN <<Min2(e), Max2(e)>>
    ELSE <<Max2(e), Min2(e)>>

NeedsBridge_AnyCount(count) == count >= 1

\* an edge gets a bridge face when exactly one triangle references it
NeedsBridge(count) == count = 1

MeshVertices_TwoCopies(n, ortho) ==
    [k \in 1..n |-> <<k - 1, FALSE>>] \o [k \in 1..n |-> <<k - 1, TRUE>>]

\* the 3D vertices, each as the arguments (index of the 2D point, close_to_cam)
\* of its _vp_plane_project_pt_inv call; index -1 is the point (0, 0)
MeshVertices(n, ortho) ==
    [k \in 1..n |-> <<k - 1, FALSE>>]
        \o (IF ortho THEN [k \in 1..n |-> <<k - 1, TRUE>>] ELSE << <<-1, TRUE>> >>)

CapFaces_NearOnly(tris, n, ortho) == tris

CapFaces_Reversed(tris, n, ortho) ==
    tris \o (IF ortho
             THEN [k \in DOMAIN tris |->
                     <<tris[k][3] + n, tris[k][2] + n, tris[k][1] + n>>]
             ELSE <<>>)

\* the faces of the near-camera and far-from-camera parts
CapFaces(tris, n, ortho) ==
    tris \o (IF ortho
             THEN [k \in DOMAIN tris |->
                     <<tris[k][1] + n, tris[k][2] + n, tris[k][3] + n>>]
             ELSE <<>>)

\* the loop over edge_counts.items(): the edges and the bridge faces
BridgeLoop(tris, keys, n, ortho, order) ==
    LET bridged == SelectSeq(keys, LAMBDA key : NeedsBridge(EdgeCount(tris, key)))
        edge(k) == EdgeTuple(order, keys[k])
        bridge(k) == EdgeTuple(order, bridged[k])
        edges == IF ortho
                 THEN [i \in 1..(2 * Len(keys)) |->
                         IF i % 2 = 1
                         THEN edge((i + 1) \div 2)
                         ELSE <<edge(i \div 2)[1] + n, edge(i \div 2)[2] + n>>]
                 ELSE [k \in DOMAIN keys |-> edge(k)]
        faces == [k \in DOMAIN bridged |->
                    IF ortho
                    THEN <<bridge(k)[1], bridge(k)[2], bridge(k)[2] + n, bridge(k)[1] + n>>
                    ELSE <<bridge(k)[1], bridge(k)[2], n>>]
    IN  [edges |-> SubSeq(edges, 1, Len(edges)),
         faces |-> SubSeq(faces, 1, Len(bridged))]

\* the data handed to mesh.from_pydata
StencilMeshData(tris, n, ortho, order) ==
    LET bridge == BridgeLoop(tris, EdgeKeys(tris), n, ortho, order)
    IN  [vertices |-> MeshVertices(n, ortho),
         edges    |-> bridge.edges,
         faces    |-> CapFaces(tris, n, ortho) \o bridge.faces]

(* The triangulations come from the triangle library.  The model draws them *)
(* from the planar triangulations that can be grown, one triangle at a      *)
(* time, from the empty one: a triangle on three new vertices (another      *)
(* polygon), on a boundary edge and a new vertex, on a boundary vertex and  *)
(* two new vertices (polygons that touch in a point), or across two         *)
(* boundary edges that meet in a vertex.                                    *)

NumVerts(tris) ==
    Cardinality(UNION {{tris[k][1], tris[k][2], tris[k][3]} : k \in DOMAIN tris})

TriEdgeSet(tris) == UNION {SeqRange(TriEdges(tris[k])) : k \in DOMAIN tris}

BoundaryEdges(tris) == {e \in TriEdgeSet(tris) : EdgeCount(tris, e) = 1}

Grow(tris) ==
    LET n == NumVerts(tris)
        bnd == BoundaryEdges(tris)
    IN  {Append(tris, <<n, n + 1, n + 2>>)}
        \cup {Append(tris, <<Min2(e), Max2(e), n>>) : e \in bnd}
        \cup {Append(tris, <<Max2(e), Min2(e), n>>) : e \in bnd}
        \cup {Append(tris, <<a, n, n + 1>>) : a \in UNION bnd}
        \cup {Append(tris, <<Min2(x[1] \ x[2]), Min2(x[1] \cap x[2]), Min2(x[2] \ x[1])>>) :
                x \in {y \in bnd \X bnd :
                         /\ Cardinality(y[1] \cap y[2]) = 1
                         /\ ((y[1] \cup y[2]) \ (y[1] \cap y[2])) \notin TriEdgeSet(tris)
                         /\ Cardinality({e \in bnd : (y[1] \cap y[2]) \subseteq e}) = 2}}

RECURSIVE Triangulations(_)
Triangulations(k) ==
    IF k = 0 THEN {<<>>}
    ELSE LET smaller == Triangulations(k - 1)
         IN  smaller \cup UNION {Grow(tris) : tris \in {t \in smaller : Len(t) = k - 1}}

InitMesh ==
    /\ triangles_2d \in Triangulations(MaxTris) \ {<<>>}
    /\ num_vertices_2d = NumVerts(triangles_2d)
    /\ tuple_order \in TupleOrders
    /\ is_orthographic \in BOOLEAN
    /\ mesh_data = NoMeshData
    /\ pc = "geometry"
    /\ ProjIdle /\ WalkIdle /\ ExecIdle /\ GeomIdle

\* lines 274-307: the vertices, faces and edges
BuildMeshData ==
    /\ pc = "geometry"
    /\ mesh_data' = StencilMeshData(triangles_2d, num_vertices_2d, is_orthographic,
                                    tuple_order)
    /\ pc' = "pydata"
    /\ UNCHANGED <<num_vertices_2d, triangles_2d, tuple_order, is_orthographic,
                   projVars, walkVars, execVars, geomVars>>

NextMesh == BuildMeshData

SpecMesh == InitMesh /\ [][NextMesh]_vars

\* the edges of a face: the pairs of vertices that follow each other around it
FaceEdges(face) ==
    {{face[k], face[(k % Len(face)) + 1]} : k \in DOMAIN face}

\* the edges of the mesh
MeshEdges == UNION {FaceEdges(mesh_data.faces[k]) : k \in DOMAIN mesh_data.faces}

FacesAt(e) == {k \in DOMAIN mesh_data.faces : e \in FaceEdges(mesh_data.faces[k])}

\* C1: every edge of a stencil mesh, cap edges and connecting edges alike, is
\* contained in exactly 2 of the mesh's faces.
C1_EveryEdgeInTwoFaces ==
    pc = "pydata" => \A e \in MeshEdges : Cardinality(FacesAt(e)) = 2

\* the bridge faces: the faces after the cap faces
BridgeFaces ==
    SubSeq(mesh_data.faces,
           Len(CapFaces(triangles_2d, num_vertices_2d, is_orthographic)) + 1,
           Len(mesh_data.faces))

\* the bridge faces the claim allows for the pair e, in either order of the pair
BridgeFor(e) ==
    LET a == Min2(e)
        b == Max2(e)
        n == num_vertices_2d
    IN  IF is_orthographic
        THEN {<<a, b, b + n, a + n>>, <<b, a, a + n, b + n>>}
        ELSE {<<a, b, n>>, <<b, a, n>>}

\* the unordered pairs of vertex indices of the triangulation
IndexPairs == {e \in SUBSET (0..(num_vertices_2d - 1)) : Cardinality(e) = 2}

\* C10: exactly one bridge face for each unordered index pair referenced by
\* exactly one triangle, none for any other pair: the quad (a, b, b+n, a+n) in
\* orthographic mode, the triangle (a, b, n) in perspective mode.
C10_OneBridgePerBoundaryEdge ==
    pc = "pydata" =>
        /\ \A e \in IndexPairs :
             Cardinality({k \in DOMAIN BridgeFaces : BridgeFaces[k] \in BridgeFor(e)})
                 = IF EdgeCount(triangles_2d, e) = 1 THEN 1 ELSE 0
        /\ \A k \in DOMAIN BridgeFaces :
             \E e \in IndexPairs : BridgeFaces[k] \in BridgeFor(e)

\* C10 witness: a mesh was built from a triangulation with an edge shared by
\* two triangles and an edge of one triangle only
C10_Witness ==
    /\ pc = "pydata"
    /\ \E e \in IndexPairs : EdgeCount(triangles_2d, e) = 2
    /\ \E e \in IndexPairs : EdgeCount(triangles_2d, e) = 1
    /\ BridgeFaces # <<>>

\* C11: in orthographic mode a triangulation with n vertices, T triangles and
\* B edges referenced by exactly one triangle gives a mesh with 2n vertices
\* and 2T + B faces: the T triangles, T triangles on the offset vertices and B
\* quads.
C11_OrthoSolidCounts ==
    (pc = "pydata" /\ is_orthographic) =>
        LET n == num_vertices_2d
            T == Len(triangles_2d)
            B == Cardinality(BoundaryEdges(triangles_2d))
            faces == mesh_data.faces
        IN  /\ Len(mesh_data.vertices) = 2 * n
            /\ Len(faces) = 2 * T + B
            /\ \A k \in 1..T :
                 /\ faces[k] = triangles_2d[k]
                 /\ Len(faces[T + k]) = 3
                 /\ SeqRange(faces[T + k]) = {v + n : v \in SeqRange(triangles_2d[k])}
            /\ \A k \in (2 * T + 1)..(2 * T + B) :
                 /\ Len(faces[k]) = 4
                 /\ Cardinality(SeqRange(faces[k])) = 4

\* C11 witness: the mesh of a square of two triangles: 8 vertices, 4 quads,
\* 8 faces
C11_Witness ==
    /\ pc = "pydata" /\ is_orthographic
    /\ num_vertices_2d = 4 /\ Len(triangles_2d) = 2
    /\ Cardinality(BoundaryEdges(triangles_2d)) = 4
    /\ Len(mesh_data.vertices) = 8 /\ Len(mesh_data.faces) = 8
    /\ Cardinality({k \in DOMAIN mesh_data.faces : Len(mesh_data.faces[k]) = 4}) = 4

\* the face a triangle's vertices make when each is moved by n
Offset(tri, n) == <<tri[1] + n, tri[2] + n, tri[3] + n>>

\* the three ways to list a triangle in the opposite cyclic order
Reversals(tri) ==
    {<<tri[3], tri[2], tri[1]>>, <<tri[2], tri[1], tri[3]>>, <<tri[1], tri[3], tri[2]>>}

\* C14 (as claimed): in orthographic mode the face of a triangle on the
\* offset vertices lists them in the opposite cyclic order.
C14_Original_FarCapReversed ==
    (pc = "pydata" /\ is_orthographic) =>
        \A k \in DOMAIN triangles_2d :
            mesh_data.faces[Len(triangles_2d) + k]
                \in Reversals(Offset(triangles_2d[k], num_vertices_2d))

\* C14 (amended): in orthographic mode the face of a triangle (a, b, c) on
\* the offset vertices is (a + n, b + n, c + n): the same cyclic order.
C14_FarCapSameWinding ==
    (pc = "pydata" /\ is_orthographic) =>
        \A k \in DOMAIN triangles_2d :
            mesh_data.faces[Len(triangles_2d) + k]
                = Offset(triangles_2d[k], num_vertices_2d)

\* C14 witness: an orthographic mesh of two triangles with both their faces
\* on the offset vertices
C14_Witness ==
    /\ pc = "pydata" /\ is_orthographic
    /\ Len(triangles_2d) = 2
    /\ mesh_data.faces[3] = Offset(triangles_2d[1], num_vertices_2d)
    /\ mesh_data.faces[4] = Offset(triangles_2d[2], num_vertices_2d)
-----------------------------------------------------------------------------
(* The 3D vertices of a stencil mesh: _vp_plane_project_pt_inv and lines    *)
(* 50 and 274-280.                                                          *)

\* a shear with a shift
Shear1 == << <<1, 1, 0, 0>>, <<0, 1, 0, 2>>, <<0, 0, 1, -1>>, <<0, 0, 0, 1>> >>

\* the cofactor of entry (i, j) of the upper left 3x3 block
Cofactor(m, i, j) ==
    LET i1 == (i % 3) + 1
        i2 == ((i + 1) % 3) + 1
        j1 == (j % 3) + 1
        j2 == ((j + 1) % 3) + 1
    IN  m[i1][j1] * m[i2][j2] - m[i1][j2] * m[i2][j1]

Det3(m) == m[1][1] * Cofactor(m, 1, 1) + m[1][2] * Cofactor(m, 1, 2)
               + m[1][3] * Cofactor(m, 1, 3)

\* the view matrices whose inverse has integer entries
LiftMatrices == {m \in Matrices \cup {Shear1} : Abs(Det3(m)) = 1}

\* Matrix.inverted() of an affine matrix: the inverse of the 3x3 block is its
\* adjugate divided by its determinant, the shift is carried through it
Inverted(m) ==
    LET det == Det3(m)
        inv == [i \in 1..3 |-> [j \in 1..3 |-> Cofactor(m, j, i) \div det]]
    IN  [i \in 1..4 |->
           IF i = 4 THEN <<0, 0, 0, 1>>
           ELSE <<inv[i][1], inv[i][2], inv[i][3],
                  0 - (inv[i][1] * m[1][4] + inv[i][2] * m[2][4] + inv[i][3] * m[3][4])>>]

VpPlaneProjectPtInv_Scaled(from_cam_matrix, ortho, dist, p, close_to_cam) ==
    LET view_space_output ==
            IF close_to_cam /\ ~ortho THEN <<0, 0, 0, 1>>
            ELSE <<p[1] * dist, p[2] * dist, IF close_to_cam THEN dist ELSE 0 - dist, 1>>
        output_vec == MatVec(from_cam_matrix, view_space_output)
    IN  <<output_vec[1], output_vec[2], output_vec[3]>>

\* _vp_plane_project_pt_inv
VpPlaneProjectPtInv(from_cam_matrix, ortho, dist, p, close_to_cam) ==
    LET view_space_output ==
            IF ortho THEN <<p[1], p[2], IF close_to_cam THEN dist ELSE 0 - dist, 1>>
            ELSE IF close_to_cam THEN <<0, 0, 0, 1>>
            ELSE <<p[1] * dist, p[2] * dist, 0 - dist, 1>>
        output_vec == MatVec(from_cam_matrix, view_space_output)
    IN  <<output_vec[1], output_vec[2], output_vec[3]>>

\* lines 274-280: one call of _vp_plane_project_pt_inv per 3D vertex
StencilVertices(from_cam_matrix, ortho, dist, verts_2d) ==
    LET calls == MeshVertices(Len(verts_2d), ortho)
    IN  [k \in DOMAIN calls |->
           VpPlaneProjectPtInv(from_cam_matrix, ortho, dist,
                               IF calls[k][1] = -1 THEN <<0, 0>>
                               ELSE verts_2d[calls[k][1] + 1],
                               calls[k][2])]

\* the 2D vertices of a triangulated shape
LiftPts == {<<x, y>> : x \in 0..MaxCoord, y \in {-1, 1}}

VertexLists ==
    {v \in UNION {[1..n -> LiftPts] : n \in 1..MaxLiftVerts} :
        \A j, k \in DOMAIN v : j # k => v[j] # v[k]}

InitLift ==
    /\ to_cam_matrix \in LiftMatrices
    /\ is_orthographic \in BOOLEAN
    /\ far_dist \in 1..MaxFarDist
    /\ vertices_2d \in VertexLists
    /\ vertices = <<>> /\ reprojected = <<>>
    /\ pc = "lift"
    /\ pt = <<0, 0, 0>> /\ projected = NoProjection
    /\ WalkIdle /\ MeshIdle /\ ExecIdle /\ PathIdle /\ ShapeIdle

\* lines 50 and 274-280
BuildVertices ==
    /\ pc = "lift"
    /\ vertices' = StencilVertices(Inverted(to_cam_matrix), is_orthographic, far_dist,
                                   vertices_2d)
    /\ pc' = "lifted"
    /\ UNCHANGED <<far_dist, vertices_2d, reprojected, projVars, walkVars, meshVars,
                   execVars, pathVars, shapeVars, is_orthographic>>

\* _vp_plane_project_pt with the view matrix on each of the 3D vertices
ProjectBack ==
    /\ pc = "lifted"
    /\ reprojected' = [k \in DOMAIN vertices |->
                          VpPlaneProjectPt(to_cam_matrix, is_orthographic, vertices[k])]
    /\ pc' = "reprojected"
    /\ UNCHANGED <<far_dist, vertices_2d, vertices, projVars, walkVars, meshVars,
                   execVars, pathVars, shapeVars, is_orthographic>>

NextLift == BuildVertices \/ ProjectBack

SpecLift == InitLift /\ [][NextLift]_vars

\* the camera-space position of a 3D vertex
CamSpace(v) == MatVec(to_cam_matrix, <<v[1], v[2], v[3], 1>>)

Lifted == pc \in {"lifted", "reprojected"}

\* C12 (as claimed): in perspective mode the mesh has n + 1 vertices: each 2D
\* vertex lifted once, at camera-space depth 0, and one vertex at the
\* camera-space origin.
C12_Original_LiftedAtDepthZero ==
    (Lifted /\ ~is_orthographic) =>
        LET n == Len(vertices_2d)
        IN  /\ Len(vertices) = n + 1
            /\ \A k \in 1..n : CamSpace(vertices[k])[3] = 0
            /\ CamSpace(vertices[n + 1]) = <<0, 0, 0, 1>>

\* C12 (amended): in perspective mode the mesh has n + 1 vertices: each 2D
\* vertex (x, y) lifted once, to the camera-space point
\* (x * far_dist, y * far_dist, -far_dist), and one vertex at the
\* camera-space origin.
C12_PerspectiveVertices ==
    (Lifted /\ ~is_orthographic) =>
        LET n == Len(vertices_2d)
        IN  /\ Len(vertices) = n + 1
            /\ \A k \in 1..n :
                 CamSpace(vertices[k]) = <<vertices_2d[k][1] * far_dist,
                                           vertices_2d[k][2] * far_dist,
                                           0 - far_dist, 1>>
            /\ CamSpace(vertices[n + 1]) = <<0, 0, 0, 1>>

\* C12 witness: two 2D vertices lifted in perspective mode through a view
\* matrix that is not the identity
C12_Witness ==
    /\ Lifted /\ ~is_orthographic
    /\ to_cam_matrix # Identity /\ far_dist > 1
    /\ Len(vertices_2d) = 2 /\ Len(vertices) = 3

\* C13: in orthographic mode, projecting a lifted vertex back gives the 2D
\* point it was lifted from, for the vertices lifted to depth -far_dist
\* (the first n) and to depth +far_dist (the n after them).
C13_OrthoRoundTrip ==
    (pc = "reprojected" /\ is_orthographic) =>
        LET n == Len(vertices_2d)
        IN  /\ Len(reprojected) = 2 * n
            /\ \A k \in 1..n : \A j \in {k, k + n} :
                 /\ ~reprojected[j].raised
                 /\ reprojected[j].value = <<Num(vertices_2d[k][1]), Num(vertices_2d[k][2])>>
            /\ \A k \in 1..n :
                 /\ CamSpace(vertices[k])[3] = 0 - far_dist
                 /\ CamSpace(vertices[k + n])[3] = far_dist

\* C13 witness: a point off the origin went through a view matrix that is
\* not the identity, with far_dist > 1, and came back
C13_Witness ==
    /\ pc = "reprojected" /\ is_orthographic
    /\ to_cam_matrix = Shear1 /\ far_dist > 1
    /\ vertices_2d[1] # <<0, 0>>
    /\ reprojected[1].value = <<Num(vertices_2d[1][1]), Num(vertices_2d[1][2])>>
    /\ vertices[1] # vertices[Len(vertices_2d) + 1]
-----------------------------------------------------------------------------
(* Blender's data, as the add-on uses it.  An object is a record            *)
(* [id, type, data] (data: the identity of its mesh datablock, 0 if it has  *)
(* none), a mesh datablock a record [id, name].                             *)

\* bpy.data.objects.remove(obj): the object goes, and with it its selection
\* and active state; its datablock stays in bpy.data.meshes
ObjectsRemove(b, id) ==
    [b EXCEPT !.objects = {o \in @ : o.id # id},
              !.selected = @ \ {id},
              !.active = IF @ = id THEN 0 ELSE @]

\* bpy.data.meshes.remove(mesh)
MeshesRemove(b, id) == [b EXCEPT !.meshes = {m \in @ : m.id # id}]

\* bpy.data.meshes.new(name)
MeshesNew(b, id, name) ==
    [b EXCEPT !.meshes = @ \cup {[id |-> id, name |-> name]}]

\* bpy.data.objects.new(name, mesh) and context.scene.collection.objects.link
ObjectsNew(b, id, mesh) ==
    [b EXCEPT !.objects = @ \cup {[id |-> id, type |-> "MESH", data |-> mesh]}]

\* bpy.ops.object.select_all(action='DESELECT'), obj.select_set(True) and
\* context.view_layer.objects.active = obj
MakeOnlySelected(b, id) == [b EXCEPT !.selected = {id}, !.active = id]

RECURSIVE ObjectsRemoveAll(_, _)
ObjectsRemoveAll(b, ids) ==
    IF ids = <<>> THEN b
    ELSE ObjectsRemoveAll(ObjectsRemove(b, Head(ids)), Tail(ids))

ObjectIds(b) == {o.id : o \in b.objects}
MeshIds(b) == {m.id : m \in b.meshes}
ObjectOf(b, id) == CHOOSE o \in b.objects : o.id = id

-----------------------------------------------------------------------------
(* The geometry of a carver and its extraction (lines 119-249).  shapely    *)
(* is not part of the repository: what it makes of projected paths or faces *)
(* is one of "shape" (a valid, non-empty shape), "none" or "error" (it      *)
(* raised).                                                                 *)

CarverPts == {<<1, 0, -1>>, <<0, 0, 0>>}

ShapelyResults == {"shape", "none", "error"}

\* the for loop over carver_bmesh.verts, up to vertex v
RECURSIVE FacelessLoop(_, _, _)
FacelessLoop(edges, first, v) ==
    IF v = 0 THEN <<<<>>, {}>>
    ELSE LET before == FacelessLoop(edges, first, v - 1)
         IN  StartVertIter(edges, before[1], before[2], v, first[v])

\* paths, as lists of coordinates (line 192)
FacelessPaths(mesh, first) ==
    LET found == FacelessLoop(mesh.edges, first, Len(mesh.co))[1]
    IN  [k \in DOMAIN found |-> [j \in DOMAIN found[k] |-> mesh.co[found[k][j]]]]

\* some point of the paths makes _vp_plane_project_pt raise
AnyPointBehind(m, ortho, paths) ==
    \E k \in DOMAIN paths : \E j \in DOMAIN paths[k] :
        VpPlaneProjectPt(m, ortho, paths[k][j]).raised

\* _paths_to_stencil_shape
PathsToStencilShape(m, ortho, paths, shapely) ==
    IF AnyPointBehind(m, ortho, paths) THEN "behind"
    ELSE IF paths = <<>> THEN "none"
    ELSE shapely

\* _faced_carver_mesh_to_stencil_shape: only the vertices of faces are projected
FacedCarverMeshToStencilShape(m, ortho, mesh, shapely) ==
    IF AnyPointBehind(m, ortho,
                      [f \in DOMAIN mesh.polygons |->
                         [j \in DOMAIN mesh.polygons[f] |-> mesh.co[mesh.polygons[f][j]]]])
    THEN "behind"
    ELSE shapely

\* _faceless_carver_mesh_to_stencil_shape
FacelessCarverMeshToStencilShape(m, ortho, mesh, first, shapely) ==
    IF Len(mesh.co) <= 0 THEN "none"
    ELSE PathsToStencilShape(m, ortho, FacelessPaths(mesh, first), shapely)

\* _carver_mesh_to_stencil_shape
CarverMeshToStencilShape(m, ortho, mesh, first, shapely) ==
    IF Len(mesh.polygons) <= 0
    THEN FacelessCarverMeshToStencilShape(m, ortho, mesh, first, shapely)
    ELSE FacedCarverMeshToStencilShape(m, ortho, mesh, shapely)

\* _carver_gpencil_obj_to_stencil_shape: every point of every stroke is projected
CarverGpencilObjToStencilShape(m, ortho, strokes, shapely) ==
    PathsToStencilShape(m, ortho,
        [k \in DOMAIN strokes |->
            IF strokes[k].draw_cyclic /\ Len(strokes[k].points) > 1
               /\ strokes[k].points[1] # strokes[k].points[Len(strokes[k].points)]
            THEN Append(strokes[k].points, strokes[k].points[1])
            ELSE strokes[k].points],
        shapely)

\* the meshes a carver may hold: faceless ones, and one triangular face with
\* or without a further loose vertex
FacelessMeshes ==
    UNION {{[co |-> c, edges |-> e, polygons |-> <<>>] :
              c \in [1..n -> CarverPts], e \in SUBSET AllEdges(n)} :
           n \in 0..MaxCarverVerts}

FacedMeshes ==
    UNION {{[co |-> c, edges |-> AllEdges(3), polygons |-> << <<1, 2, 3>> >>] :
              c \in [1..n -> CarverPts]} : n \in {3, 4}}

CarverMeshes == FacelessMeshes \cup FacedMeshes

\* the strokes a grease pencil carver may hold
GpencilStrokes ==
    {<<>>} \cup
    UNION {{<<[points |-> p, draw_cyclic |-> c]>> :
              p \in [1..n -> CarverPts], c \in BOOLEAN} : n \in 1..2}

\* the choices of start_edges[0] for the vertices of a mesh
FirstChoices(mesh) ==
    {f \in [1..Len(mesh.co) -> 1..Len(mesh.co)] :
        \A v \in 1..Len(mesh.co) : f[v] \in FirstVerts(mesh.edges, v)}

\* some vertex (or stroke point) of the geometry has camera-space depth 0
HasDepthZero(m, points) ==
    \E k \in DOMAIN points : MatVec(m, <<points[k][1], points[k][2], points[k][3], 1>>)[3] = 0

RECURSIVE Flatten(_)
Flatten(seqs) == IF seqs = <<>> THEN <<>> ELSE Head(seqs) \o Flatten(Tail(seqs))

\* the three kinds of carver types: SURFACE and FONT objects are converted to
\* meshes like CURVE objects (_SUPPORTED_CARVER_TYPES)
CarverTypes == {"MESH", "CURVE", "GPENCIL"}

BatchMatrices == {Identity, Back1}

\* what the extraction of a carver's geometry can come to, with the fact
\* about the geometry that the properties speak of
MeshExtractions(m, ortho) ==
    UNION {{[depth0 |-> HasDepthZero(m, g.co),
             outcome |-> CarverMeshToStencilShape(m, ortho, g, first, shapely)] :
              first \in FirstChoices(g), shapely \in ShapelyResults} :
           g \in CarverMeshes}

GpencilExtractions(m, ortho) ==
    {[depth0 |-> HasDepthZero(m, Flatten([k \in DOMAIN x[1] |-> x[1][k].points])),
      outcome |-> CarverGpencilObjToStencilShape(m, ortho, x[1], x[2])] :
        x \in GpencilStrokes \X ShapelyResults}

\* the extractions for every camera of the model and both kinds of geometry
ExtractionTable ==
    UNION {{[matrix |-> c[1], ortho |-> c[2], gpencil |-> c[3],
             depth0 |-> x.depth0, outcome |-> x.outcome] :
              x \in IF c[3] THEN GpencilExtractions(c[1], c[2])
                            ELSE MeshExtractions(c[1], c[2])} :
           c \in BatchMatrices \X BOOLEAN \X BOOLEAN}

Extractions(m, ortho, type) ==
    {x \in ExtractionTable :
        x.matrix = m /\ x.ortho = ortho /\ x.gpencil = (type = "GPENCIL")}

-----------------------------------------------------------------------------
(* _paths_to_stencil_shape, lines 233-237: the projection of the paths and  *)
(* the ring made of each.                                                   *)

\* the points of a path: two of them one unit apart, the others far away
PathPts == {<<0, 0, -1>>, <<1, 0, -1>>, <<5, 0, -1>>, <<0, 5, -1>>}

Paths == UNION {[1..n -> PathPts] : n \in 3..MaxPathLen}

\* one path, or a path and the same path with another last point
PathLists ==
    {<<p>> : p \in Paths}
        \cup {<<p, [p EXCEPT ![Len(p)] = q]>> : p \in Paths, q \in PathPts}

\* shapely's LinearRing(path): a sequence whose first and last coordinates
\* are not identical is closed by copying the first to the end
LinearRing(path) ==
    IF path[1] # path[Len(path)] THEN Append(path, path[1]) ELSE path

\* line 233
Paths2d(m, ortho, ps) ==
    [k \in DOMAIN ps |->
        [j \in DOMAIN ps[k] |-> VpPlaneProjectPt(m, ortho, ps[k][j]).value]]

InitPaths ==
    /\ paths_in \in PathLists
    /\ linear_rings = <<>>
    /\ to_cam_matrix \in BatchMatrices
    /\ is_orthographic \in BOOLEAN
    /\ pc = "paths"
    /\ pt = <<0, 0, 0>> /\ projected = NoProjection
    /\ WalkIdle /\ MeshIdle /\ ExecIdle /\ LiftIdle /\ ShapeIdle

\* lines 233-237: every point is projected, then each path is made a ring
PathsToRings ==
    /\ pc = "paths"
    /\ IF AnyPointBehind(to_cam_matrix, is_orthographic, paths_in)
       THEN /\ pc' = "paths_raised"
            /\ UNCHANGED linear_rings
       ELSE /\ pc' = "rings"
            /\ linear_rings' =
                   LET paths_2d == Paths2d(to_cam_matrix, is_orthographic, paths_in)
                   IN  [k \in DOMAIN paths_2d |-> LinearRing(paths_2d[k])]
    /\ UNCHANGED <<paths_in, projVars, walkVars, meshVars, execVars, liftVars,
                   shapeVars, is_orthographic>>

NextPaths == PathsToRings

SpecPaths == InitPaths /\ [][NextPaths]_vars

\* the squared distance of two 3D points
SqDist(p, q) ==
    (p[1] - q[1]) * (p[1] - q[1]) + (p[2] - q[2]) * (p[2] - q[2])
        + (p[3] - q[3]) * (p[3] - q[3])

\* an open path whose two endpoints are within the closing tolerance: with a
\* unit of 1e-5, a squared distance below 1e-9 is one below 10 units
OpenWithinTolerance(path) ==
    /\ path[1] # path[Len(path)]
    /\ SqDist(path[1], path[Len(path)]) < 10

\* the same path given explicitly closed
ExplicitlyClosed(path) == [path EXCEPT ![Len(path)] = path[1]]

\* the vertex count and the segment count of a ring
RingCounts(ring) == <<Cardinality(SeqRange(ring)), Len(ring) - 1>>

\* C19: an open path whose endpoints are within the closing tolerance gives
\* the same ring as the same path given explicitly closed: its last point is
\* dropped, and the vertex count and segment count are the same.
C19_NearlyClosedLikeClosed ==
    pc = "rings" =>
        \A j, k \in DOMAIN paths_in :
            (/\ OpenWithinTolerance(paths_in[j])
             /\ paths_in[k] = ExplicitlyClosed(paths_in[j]))
                => /\ RingCounts(linear_rings[j]) = RingCounts(linear_rings[k])
                   /\ Len(linear_rings[j]) = Len(paths_in[j])
-----------------------------------------------------------------------------
(* _carver_to_stencil_shape (lines 82-116), given what the extraction of    *)
(* the carver's geometry comes to.  Returns Blender's data after the call,  *)
(* the outcome, and the temporaries the conversion created.                 *)

ModeCheckRaises_Never(mode) == FALSE

\* the test of lines 37 and 82: 'Not in Object Mode'
ModeCheckRaises(mode) == mode # "OBJECT"

RemovesCarverMeshObj_OnlyDeleted(delete_carver, carver_was_mesh) == delete_carver

\* the finally clause of the mesh branch (lines 114-116)
RemovesCarverMeshObj(delete_carver, carver_was_mesh) ==
    delete_carver \/ ~carver_was_mesh

CarverToStencilShape(b, id, carver, delete_carver, convert_finished, extraction) ==
    IF ModeCheckRaises(b.mode)
    THEN [bpy |-> b, outcome |-> "not_object_mode", objs |-> {}, meshes |-> {}]
    ELSE IF carver.type = "GPENCIL"
    THEN [bpy |-> IF delete_carver THEN ObjectsRemove(b, carver.id) ELSE b,
          outcome |-> extraction, objs |-> {}, meshes |-> {}]
    ELSE IF carver.type = "MESH"
    THEN [bpy |-> IF RemovesCarverMeshObj(delete_carver, TRUE)
                  THEN ObjectsRemove(b, carver.id) ELSE b,
          outcome |-> extraction, objs |-> {}, meshes |-> {}]
    ELSE LET selected == MakeOnlySelected(b, carver.id)
         IN  IF ~convert_finished
             THEN [bpy |-> selected, outcome |-> "convert_failed",
                   objs |-> {}, meshes |-> {}]
             ELSE IF ~delete_carver
             THEN \* keep_original: a new mesh object, made the active object
                  LET converted == MakeOnlySelected(
                                       ObjectsNew(MeshesNew(selected, id + 1, "converted"),
                                                  id, id + 1), id)
                  IN  [bpy |-> IF RemovesCarverMeshObj(delete_carver, FALSE)
                               THEN ObjectsRemove(converted, id) ELSE converted,
                       outcome |-> extraction, objs |-> {id}, meshes |-> {id + 1}]
             ELSE \* the carver object itself becomes a mesh object
                  LET converted ==
                          [MeshesNew(selected, id, "converted") EXCEPT
                              !.objects = {IF o.id = carver.id
                                           THEN [o EXCEPT !.type = "MESH", !.data = id]
                                           ELSE o : o \in @}]
                  IN  [bpy |-> IF RemovesCarverMeshObj(delete_carver, FALSE)
                               THEN ObjectsRemove(converted, carver.id) ELSE converted,
                       outcome |-> extraction, objs |-> {}, meshes |-> {id}]

-----------------------------------------------------------------------------
(* carvers_to_stencil_meshes, lines 43-47 *)

UnionApplies_Always(union_stencils, num_shapes) == num_shapes > 0

\* the test of line 46
UnionApplies(union_stencils, num_shapes) == union_stencils /\ num_shapes > 0

\* shapely.ops.unary_union of the shapes: one shape from all the carvers
UnaryUnion(shapes) ==
    [none |-> FALSE,
     src  |-> UNION {shapes[k].src : k \in DOMAIN shapes},
     tri  |-> \E k \in DOMAIN shapes : shapes[k].tri]

UnionShapes_Keep(union_stencils, shapes) == shapes

UnionShapes(union_stencils, shapes) ==
    IF UnionApplies(union_stencils, Len(shapes)) THEN <<UnaryUnion(shapes)>> ELSE shapes

\* line 43
FilterNone(shapes) == SelectSeq(shapes, LAMBDA shape : ~shape.none)

-----------------------------------------------------------------------------
(* _stencil_shape_to_stencil_mesh (lines 263-339) as Blender sees it.  What *)
(* happens in the call is one of                                            *)
(*   "none"       the shape is not triangulable: None is returned           *)
(*   "ok"         the stencil mesh object is returned                       *)
(*   "early"      an exception before bpy.data.meshes.new                   *)
(*   "mesh"       an exception in lines 314-317, the mesh datablock exists  *)
(*   "obj"        an exception in lines 319-329, the object exists too      *)

BuildEvents == {"ok", "early", "mesh", "obj"}

StencilMeshCleanup_ObjectOnly(b, mesh_obj, mesh) ==
    IF mesh_obj # 0 THEN ObjectsRemove(b, mesh_obj) ELSE b

\* the except clause, lines 333-337
StencilMeshCleanup(b, mesh_obj, mesh) ==
    MeshesRemove(IF mesh_obj # 0 THEN ObjectsRemove(b, mesh_obj) ELSE b, mesh)

\* id is the identity of the new object, id + 1 that of its mesh datablock
StencilShapeToStencilMesh(b, id, event) ==
    LET with_mesh == MeshesNew(b, id + 1, "viewCarveTemp_stencilMesh")
        with_obj == MakeOnlySelected(ObjectsNew(with_mesh, id, id + 1), id)
    IN  CASE event = "none"  -> [bpy |-> b, obj |-> 0, mesh |-> 0, raised |-> FALSE]
          [] event = "early" -> [bpy |-> b, obj |-> 0, mesh |-> 0, raised |-> TRUE]
          [] event = "mesh"  -> [bpy |-> StencilMeshCleanup(with_mesh, 0, id + 1),
                                 obj |-> 0, mesh |-> id + 1, raised |-> TRUE]
          [] event = "obj"   -> [bpy |-> StencilMeshCleanup(with_obj, id, id + 1),
                                 obj |-> id, mesh |-> id + 1, raised |-> TRUE]
          [] event = "ok"    -> [bpy |-> with_obj,
                                 obj |-> id, mesh |-> id + 1, raised |-> FALSE]

\* the except clause of carvers_to_stencil_meshes, lines 60-63
CtsmCleanup(b, objs) == ObjectsRemoveAll(b, objs)

\* the finally clause of execute, lines 146-149
ExecuteFinallyCleanup(b, objs) == ObjectsRemoveAll(b, objs)

-----------------------------------------------------------------------------
(* The operator: VIEW_CARVE_OT_stencil.execute on a scene that passes poll  *)
(* (an active mesh target, carvers of supported types selected), and the    *)
(* same call outside Object Mode.                                           *)

PiecesToKeep == {"DIFFERENCE", "INTERSECTION", "ALL"}

CarverTypeLists == UNION {[1..n -> CarverTypes] : n \in 1..MaxCarvers}

\* the scene: the target is object 1, the carvers are objects 2, 3, ...
Scene(types, mode) ==
    [objects  |-> {[id |-> 1, type |-> "MESH", data |-> 1]}
                  \cup {[id |-> k + 1, type |-> types[k],
                         data |-> IF types[k] = "MESH" THEN k + 1 ELSE 0] :
                        k \in DOMAIN types},
     meshes   |-> {[id |-> 1, name |-> "target"]}
                  \cup {[id |-> k + 1, name |-> "carver"] :
                        k \in {j \in DOMAIN types : types[j] = "MESH"}},
     selected |-> 1..(Len(types) + 1),
     active   |-> 1,
     mode     |-> mode]

Init ==
    /\ \E types \in CarverTypeLists, mode \in {"OBJECT", "EDIT"} :
         /\ bpy = Scene(types, mode)
         /\ next_id = Len(types) + 2
    /\ prop_pieces_to_keep \in PiecesToKeep
    /\ prop_union_carves \in BOOLEAN
    /\ prop_delete_carvers \in BOOLEAN
    /\ is_orthographic \in BOOLEAN
    /\ to_cam_matrix \in BatchMatrices
    /\ orig_target = 0 /\ carver_objs = <<>> /\ exec_stencil_mesh_objs = <<>>
    /\ targets = <<>> /\ new_objs = <<>> /\ applied_ops = <<>> /\ result = "none"
    /\ reports = <<>>
    /\ carver_idx = 0 /\ stencil_shapes = <<>> /\ shape_idx = 0
    /\ stencil_mesh_objs = <<>> /\ exc = "none"
    /\ carver_log = <<>> /\ built = <<>> /\ partial = NoPartial
    /\ temp_objs = {} /\ temp_meshes = {}
    /\ PollIdle
    /\ pc = "execute"
    /\ pt = <<0, 0, 0>> /\ projected = NoProjection
    /\ WalkIdle /\ MeshIdle /\ GeomIdle

restVars == <<pollVars, pt, projected, walkVars, meshVars, geomVars, to_cam_matrix, is_orthographic,
              prop_pieces_to_keep, prop_union_carves, prop_delete_carvers>>

otherVars == <<restVars, applied_ops, reports>>

\* the selected objects as a list, in the order of their identities
RECURSIVE AsList(_)
AsList(ids) ==
    IF ids = {} THEN <<>>
    ELSE LET least == CHOOSE a \in ids : \A c \in ids : a <= c
         IN  <<least>> \o AsList(ids \ {least})

\* execute, lines 83-96, up to the call of carvers_to_stencil_meshes
ExecuteBegin ==
    /\ pc = "execute"
    /\ orig_target' = bpy.active
    /\ carver_objs' = AsList(bpy.selected \ {bpy.active})
    /\ pc' = "ctsm"
    /\ UNCHANGED <<bpy, next_id, exec_stencil_mesh_objs, targets, new_objs, result,
                   carver_idx, stencil_shapes, shape_idx, stencil_mesh_objs, exc,
                   carver_log, built, partial, temp_objs, temp_meshes, otherVars>>

\* carvers_to_stencil_meshes, lines 37-38
CtsmEnter ==
    /\ pc = "ctsm"
    /\ IF ModeCheckRaises(bpy.mode)
       THEN /\ exc' = "NotObjectMode"
            /\ pc' = "ctsm_raised"
            /\ UNCHANGED carver_idx
       ELSE /\ carver_idx' = 1
            /\ pc' = "extract"
            /\ UNCHANGED exc
    /\ UNCHANGED <<bpy, next_id, orig_target, carver_objs, exec_stencil_mesh_objs,
                   targets, new_objs, result, stencil_shapes, shape_idx,
                   stencil_mesh_objs, carver_log, built, partial, temp_objs,
                   temp_meshes, otherVars>>

\* the exception that an outcome of _carver_to_stencil_shape stands for
ExceptionOf(outcome) ==
    CASE outcome = "behind" -> "BehindCamera"
      [] outcome = "error" -> "ShapelyError"
      [] outcome = "convert_failed" -> "ConvertFailed"
      [] outcome = "not_object_mode" -> "NotObjectMode"
      [] OTHER -> "none"

ShapeReturned_Always(outcome) == TRUE

\* _carver_to_stencil_shape returns a shape or None; any other outcome is an
\* exception
ShapeReturned(outcome) == outcome \in {"shape", "none"}

\* one element of the comprehension of lines 41-42: _carver_to_stencil_shape
\* for the next carver.  An exception leaves carvers_to_stencil_meshes at once:
\* the comprehension is outside its try.
ExtractCarver ==
    /\ pc = "extract" /\ carver_idx <= Len(carver_objs)
    /\ LET carver == ObjectOf(bpy, carver_objs[carver_idx])
       IN  \E x \in Extractions(to_cam_matrix, is_orthographic, carver.type),
              convert_finished \in BOOLEAN, triangulable \in BOOLEAN :
             LET r == CarverToStencilShape(bpy, next_id, carver, prop_delete_carvers,
                                           convert_finished, x.outcome)
             IN  /\ carver.type \in {"MESH", "GPENCIL"} => convert_finished
                 /\ r.outcome # "shape" => ~triangulable
                 /\ bpy' = r.bpy
                 /\ next_id' = next_id + 2
                 /\ temp_objs' = temp_objs \cup r.objs
                 /\ temp_meshes' = temp_meshes \cup r.meshes
                 /\ carver_log' = Append(carver_log,
                        [depth0 |-> r.outcome \notin {"convert_failed", "not_object_mode"}
                                        /\ x.depth0,
                         outcome |-> r.outcome, tri |-> triangulable])
                 /\ IF ShapeReturned(r.outcome)
                    THEN /\ stencil_shapes' = Append(stencil_shapes,
                                [none |-> r.outcome = "none", src |-> {carver_idx},
                                 tri |-> triangulable])
                         /\ carver_idx' = carver_idx + 1
                         /\ UNCHANGED <<exc, pc>>
                    ELSE /\ exc' = ExceptionOf(r.outcome)
                         /\ pc' = "ctsm_raised"
                         /\ UNCHANGED <<stencil_shapes, carver_idx>>
    /\ UNCHANGED <<orig_target, carver_objs, exec_stencil_mesh_objs, targets, new_objs,
                   result, shape_idx, stencil_mesh_objs, built, partial, otherVars>>

\* lines 43-51: drop the carvers without a shape, union the shapes if asked
ShapesReady ==
    /\ pc = "extract" /\ carver_idx > Len(carver_objs)
    /\ stencil_shapes' = UnionShapes(prop_union_carves, FilterNone(stencil_shapes))
    /\ shape_idx' = 1
    /\ stencil_mesh_objs' = <<>>
    /\ pc' = "build"
    /\ UNCHANGED <<bpy, next_id, orig_target, carver_objs, exec_stencil_mesh_objs,
                   targets, new_objs, result, carver_idx, exc, carver_log, built,
                   partial, temp_objs, temp_meshes, otherVars>>

\* one iteration of the loop of lines 53-57: _stencil_shape_to_stencil_mesh
BuildStencil ==
    /\ pc = "build" /\ shape_idx <= Len(stencil_shapes)
    /\ \E event \in IF stencil_shapes[shape_idx].tri THEN BuildEvents ELSE {"none"} :
         LET r == StencilShapeToStencilMesh(bpy, next_id, event)
         IN  /\ bpy' = r.bpy
             /\ next_id' = next_id + 2
             /\ temp_objs' = temp_objs \cup (IF r.obj # 0 THEN {r.obj} ELSE {})
             /\ temp_meshes' = temp_meshes \cup (IF r.mesh # 0 THEN {r.mesh} ELSE {})
             /\ IF r.raised
                THEN /\ partial' = [mesh |-> r.mesh, obj |-> r.obj]
                     /\ exc' = "MeshError"
                     /\ pc' = "build_raised"
                     /\ UNCHANGED <<stencil_mesh_objs, built, shape_idx>>
                ELSE /\ stencil_mesh_objs' = IF r.obj # 0
                                             THEN Append(stencil_mesh_objs, r.obj)
                                             ELSE stencil_mesh_objs
                     /\ built' = IF r.obj # 0
                                 THEN Append(built, [obj |-> r.obj, mesh |-> r.mesh,
                                                     src |-> stencil_shapes[shape_idx].src])
                                 ELSE built
                     /\ shape_idx' = shape_idx + 1
                     /\ UNCHANGED <<partial, exc, pc>>
    /\ UNCHANGED <<orig_target, carver_objs, exec_stencil_mesh_objs, targets, new_objs,
                   result, carver_idx, stencil_shapes, carver_log, otherVars>>

\* line 58: the list is returned
CtsmReturn ==
    /\ pc = "build" /\ shape_idx > Len(stencil_shapes)
    /\ pc' = "ctsm_returned"
    /\ UNCHANGED <<execVars, otherVars>>

\* lines 60-65: the stencils built so far are removed, the exception goes on
CtsmExcept ==
    /\ pc = "build_raised"
    /\ bpy' = CtsmCleanup(bpy, stencil_mesh_objs)
    /\ pc' = "ctsm_raised"
    /\ UNCHANGED <<next_id, orig_target, carver_objs, exec_stencil_mesh_objs, targets,
                   new_objs, result, carver_idx, stencil_shapes, shape_idx,
                   stencil_mesh_objs, exc, carver_log, built, partial, temp_objs,
                   temp_meshes, otherVars>>
\* execute, lines 100-108: the call returned, the loop over the stencils begins
ExecuteApply ==
    /\ pc = "ctsm_returned"
    /\ exec_stencil_mesh_objs' = stencil_mesh_objs
    /\ targets' = <<orig_target>>
    /\ pc' = "apply"
    /\ UNCHANGED <<bpy, next_id, orig_target, carver_objs, new_objs, result,
                   carver_idx, stencil_shapes, shape_idx, stencil_mesh_objs, exc,
                   carver_log, built, partial, temp_objs, temp_meshes, otherVars>>

\* the positional parameters of util_mesh.apply_boolean_op
ApplyBooleanOpParams == 6
\* the arguments _separate_obj passes in each of its calls of apply_boolean_op
SeparateObjCallArgs == 5

\* a call with too few arguments raises TypeError before the function runs
ApplyBooleanOpRaises == SeparateObjCallArgs # ApplyBooleanOpParams

\* util_mesh.apply_boolean_op as _separate_obj calls it: the TypeError of a
\* call with too few arguments is raised before the body runs; otherwise the
\* modifier is added to the target and applied
ApplyBooleanOp(ops, target, obj, operation) ==
    IF ApplyBooleanOpRaises
    THEN [raised |-> TRUE, ops |-> ops]
    ELSE [raised |-> FALSE,
          ops    |-> Append(ops, [target |-> target, obj |-> obj,
                                  operation |-> operation])]

\* the operation of the first call of apply_boolean_op in _separate_obj
FirstOperation(pieces_to_keep) ==
    IF pieces_to_keep \in {"ALL", "DIFFERENCE"} THEN "DIFFERENCE" ELSE "INTERSECT"

\* lines 166-168: the copy of the target's mesh and the new object, linked
SeparateObjCopy(b, id) == ObjectsNew(MeshesNew(b, id + 1, "copy"), id, id + 1)

SeparateObjCleanup_Nothing(b, new_target, target_data_copy) == b

\* the except clause of _separate_obj, lines 177-182
SeparateObjCleanup(b, new_target, target_data_copy) ==
    MeshesRemove(ObjectsRemove(b, new_target), target_data_copy)

\* _separate_obj for the first stencil and the target: apply_boolean_op raises
\* in its first call.  With pieces_to_keep = ALL the copy of the target made
\* before the call is removed again by the except clause (lines 177-184).
SeparateObj ==
    /\ pc = "apply" /\ exec_stencil_mesh_objs # <<>>
    /\ LET applied == ApplyBooleanOp(applied_ops, targets[1], exec_stencil_mesh_objs[1],
                                     FirstOperation(prop_pieces_to_keep))
       IN  /\ applied.raised
           /\ applied_ops' = applied.ops
    /\ bpy' = IF prop_pieces_to_keep = "ALL"
              THEN SeparateObjCleanup(SeparateObjCopy(bpy, next_id), next_id, next_id + 1)
              ELSE bpy
    /\ next_id' = next_id + 2
    /\ exc' = "TypeError"
    /\ pc' = "except"
    /\ UNCHANGED <<orig_target, carver_objs, exec_stencil_mesh_objs, targets, new_objs,
                   result, carver_idx, stencil_shapes, shape_idx, stencil_mesh_objs,
                   carver_log, built, partial, temp_objs, temp_meshes, restVars, reports>>

\* lines 109-116 with no stencil: the loop body never runs
ApplyNothing ==
    /\ pc = "apply" /\ exec_stencil_mesh_objs = <<>>
    /\ pc' = "remove_empty"
    /\ UNCHANGED <<execVars, otherVars>>

\* lines 118-124 for the only target, the original one, which is empty or not.
\* An empty target is removed, and new_objs.remove(target) then raises
\* ValueError, as the original target is never in new_objs.
RemoveEmpty ==
    /\ pc = "remove_empty"
    /\ \E empty \in BOOLEAN :
         IF empty
         THEN /\ orig_target' = 0
              /\ bpy' = ObjectsRemove(bpy, targets[1])
              /\ exc' = "ValueError"
              /\ pc' = "except"
         ELSE /\ pc' = "select"
              /\ UNCHANGED <<orig_target, bpy, exc>>
    /\ UNCHANGED <<next_id, carver_objs, exec_stencil_mesh_objs, targets, new_objs,
                   result, carver_idx, stencil_shapes, shape_idx, stencil_mesh_objs,
                   carver_log, built, partial, temp_objs, temp_meshes, otherVars>>

\* the objects selected by lines 128-131
NewSelection(objs, target) ==
    SeqRange(objs) \cup (IF target # 0 THEN {target} ELSE {})

FinalSelected_NoDeselect(b, objs, target) == b.selected \cup NewSelection(objs, target)

\* the selection after lines 127-131: everything is deselected first
FinalSelected(b, objs, target) == NewSelection(objs, target)

\* lines 126-134
FinalSelection ==
    /\ pc = "select"
    /\ bpy' = [bpy EXCEPT
                 !.selected = FinalSelected(bpy, new_objs, orig_target),
                 !.active = orig_target]
    /\ result' = "FINISHED"
    /\ pc' = "finally"
    /\ UNCHANGED <<next_id, orig_target, carver_objs, exec_stencil_mesh_objs, targets,
                   new_objs, carver_idx, stencil_shapes, shape_idx, stencil_mesh_objs,
                   exc, carver_log, built, partial, temp_objs, temp_meshes, otherVars>>

\* lines 136-144: the except clause of execute
ExecuteExcept ==
    /\ pc \in {"ctsm_raised", "except"}
    /\ bpy' = ObjectsRemoveAll(bpy, new_objs)
    /\ reports' = Append(reports, "ERROR")
    /\ result' = "CANCELLED"
    /\ pc' = "finally"
    /\ UNCHANGED <<next_id, orig_target, carver_objs, exec_stencil_mesh_objs, targets,
                   new_objs, carver_idx, stencil_shapes, shape_idx, stencil_mesh_objs,
                   exc, carver_log, built, partial, temp_objs, temp_meshes, restVars,
                   applied_ops>>

\* lines 146-149: the finally clause of execute
ExecuteFinally ==
    /\ pc = "finally"
    /\ bpy' = ExecuteFinallyCleanup(bpy, exec_stencil_mesh_objs)
    /\ pc' = "done"
    /\ UNCHANGED <<next_id, orig_target, carver_objs, exec_stencil_mesh_objs, targets,
                   new_objs, result, carver_idx, stencil_shapes, shape_idx,
                   stencil_mesh_objs, exc, carver_log, built, partial, temp_objs,
                   temp_meshes, otherVars>>

Next ==
    \/ ExecuteBegin \/ CtsmEnter \/ ExtractCarver \/ ShapesReady \/ BuildStencil
    \/ CtsmReturn \/ CtsmExcept \/ ExecuteApply \/ SeparateObj \/ ApplyNothing
    \/ RemoveEmpty \/ FinalSelection \/ ExecuteExcept \/ ExecuteFinally

Spec == Init /\ [][Next]_vars

-----------------------------------------------------------------------------
(* Properties of carvers_to_stencil_meshes and execute. *)

\* carvers_to_stencil_meshes has been left, by return or by an exception
CtsmLeft == pc \in {"ctsm_returned", "ctsm_raised"}

\* C3: in perspective mode, when some carver of the batch has a vertex at
\* camera-space depth 0, carvers_to_stencil_meshes raises the behind-camera
\* error, and no stencil mesh object and no temporary object remains.
C3_DepthZeroRaisesBehindCamera ==
    (/\ CtsmLeft /\ ~is_orthographic
     /\ \E k \in DOMAIN carver_log : carver_log[k].depth0)
        => /\ pc = "ctsm_raised" /\ exc = "BehindCamera"
           /\ temp_objs \cap ObjectIds(bpy) = {}

\* C4: when building the stencil mesh of the k-th shape raises, the stencil
\* mesh objects built for the shapes before it and the mesh datablock and
\* object of shape k are gone when the exception leaves
\* carvers_to_stencil_meshes.
C4_BuildFailureRemovesStencils ==
    (pc = "ctsm_raised" /\ exc = "MeshError") =>
        /\ \A k \in DOMAIN built : built[k].obj \notin ObjectIds(bpy)
        /\ partial.obj \notin ObjectIds(bpy)
        /\ partial.mesh \notin MeshIds(bpy)

\* C4 witness: the build of a second shape raised after its object was linked
C4_Witness ==
    /\ pc = "ctsm_raised" /\ exc = "MeshError"
    /\ Len(built) >= 1
    /\ partial.obj # 0 /\ partial.mesh # 0

\* C5: after execute returns, FINISHED or CANCELLED, no temporary resource
\* of the call exists: no stencil mesh object, no stencil mesh datablock, no
\* object or mesh from the conversion of a non-mesh carver.
C5_NoTemporaryLeft ==
    pc = "done" =>
        /\ temp_objs \cap ObjectIds(bpy) = {}
        /\ temp_meshes \cap MeshIds(bpy) = {}

\* the carvers whose extraction gave a shape that can be triangulated
StencilCarvers ==
    {k \in DOMAIN carver_log : carver_log[k].outcome = "shape" /\ carver_log[k].tri}

RECURSIVE Positions(_, _)
Positions(n, keep) ==
    IF n = 0 THEN <<>>
    ELSE IF n \in keep THEN Append(Positions(n - 1, keep), n) ELSE Positions(n - 1, keep)

\* C7: without union_stencils the returned list holds one stencil for each
\* carver whose shape is not None and can be triangulated, in carver order;
\* a carver without a shape raises nothing and does not keep the others from
\* getting their stencils.
C7_OneStencilPerShapedCarver ==
    (pc = "ctsm_returned" /\ ~prop_union_carves) =>
        LET expected == Positions(Len(carver_log), StencilCarvers)
        IN  /\ Len(carver_log) = Len(carver_objs)
            /\ Len(stencil_mesh_objs) = Len(expected)
            /\ \A k \in DOMAIN expected :
                 /\ built[k].src = {expected[k]}
                 /\ built[k].obj = stencil_mesh_objs[k]
                 /\ stencil_mesh_objs[k] \in ObjectIds(bpy)
            /\ \A j, k \in DOMAIN stencil_mesh_objs :
                 j # k => stencil_mesh_objs[j] # stencil_mesh_objs[k]

\* C20: when context.mode is not 'OBJECT', carvers_to_stencil_meshes raises
\* ValueError before any side effect: no carver is converted or removed, the
\* selection and the active object are unchanged, no mesh or object is made.
C20_NotObjectModeRaisesFirst ==
    [][(pc = "ctsm" /\ bpy.mode # "OBJECT") =>
          /\ pc' = "ctsm_raised" /\ exc' = "NotObjectMode"
          /\ bpy' = bpy
          /\ temp_objs' = temp_objs /\ temp_meshes' = temp_meshes
          /\ carver_log' = carver_log /\ stencil_mesh_objs' = stencil_mesh_objs]_vars

\* C20 witness: the call raised outside Object Mode, with a carver that would
\* have been converted and deleted
C20_Witness ==
    /\ pc = "ctsm_raised" /\ exc = "NotObjectMode"
    /\ bpy.mode # "OBJECT" /\ prop_delete_carvers
    /\ \E o \in bpy.objects : o.type = "CURVE" /\ o.id \in SeqRange(carver_objs)

\* C7 witness: the first carver gave no shape, the second one got its stencil
C7_Witness ==
    /\ pc = "ctsm_returned" /\ ~prop_union_carves
    /\ Len(carver_log) = 2
    /\ carver_log[1].outcome = "none"
    /\ Len(stencil_mesh_objs) = 1 /\ built[1].src = {2}
-----------------------------------------------------------------------------
(* Stencil shapes.  A shape is None or a list of geometries; a geometry is  *)
(* a polygon, with the closed coordinate list of its exterior ring and of   *)
(* each of its interior rings, or something else (a line, a point).  valid  *)
(* is shapely's is_valid.                                                   *)

\* a polygon of a shape never has more than MaxRingNest rings around
\* one another
MaxRingNest == 4

\* the k-th of the triangles around the origin
NestRing(k) == << <<0 - k, 0 - k>>, <<2 * k, 0 - k>>, <<0 - k, 2 * k>>, <<0 - k, 0 - k>> >>

\* a triangle that touches the k-th one in its corner (2k, -k)
CornerRing(k) ==
    << <<2 * k, 0 - k>>, <<2 * k + 2, 0 - k>>, <<2 * k, 2 - k>>, <<2 * k, 0 - k>> >>

\* a triangle away from them all
FarRing == << <<20, 0>>, <<22, 0>>, <<20, 2>>, <<20, 0>> >>

\* the unit square
SquareRing == << <<0, 0>>, <<1, 0>>, <<1, 1>>, <<0, 1>>, <<0, 0>> >>

\* a ring of no area
FlatRing == << <<0, 0>>, <<1, 0>>, <<2, 0>>, <<0, 0>> >>

PolygonGeom(exterior, interiors) ==
    [polygon |-> TRUE, exterior |-> exterior, interiors |-> interiors]

\* a LineString or Point member of a GeometryCollection
OtherGeom == [polygon |-> FALSE, exterior |-> <<>>, interiors |-> <<>>]

\* Polygon(): the empty polygon
EmptyPolygon == PolygonGeom(<<>>, <<>>)

\* the k-th triangle, with the j-th triangle as a hole when j > 0
NestPolygon(k, j) ==
    PolygonGeom(NestRing(k), IF j > 0 THEN <<NestRing(j)>> ELSE <<>>)

NestPolygons ==
    {NestPolygon(x[1], x[2]) :
        x \in {y \in (1..MaxRingNest) \X (0..MaxRingNest) : y[2] < y[1]}}

\* two polygons, the second one lying in the hole of the first
IslandPairs ==
    {<<NestPolygon(x[1], x[2]), NestPolygon(x[3], x[4])>> :
        x \in {y \in (1..MaxRingNest) \X (1..MaxRingNest) \X (1..MaxRingNest)
                       \X (0..MaxRingNest) :
                 y[2] < y[1] /\ y[3] < y[2] /\ y[4] < y[3]}}

ValidGeomLists ==
    {<<p>> : p \in NestPolygons}
        \cup {<<PolygonGeom(SquareRing, <<>>)>>, <<PolygonGeom(FarRing, <<>>)>>}
        \cup IslandPairs
        \cup {<<p, PolygonGeom(FarRing, <<>>)>> : p \in NestPolygons}
        \cup {<<NestPolygon(k, 0), PolygonGeom(CornerRing(k), <<>>)>> :
                k \in 1..MaxRingNest}
        \cup {<<>>, <<OtherGeom>>, <<EmptyPolygon>>, <<OtherGeom, NestPolygon(1, 0)>>}

ShapeInputs ==
    {[none |-> TRUE, valid |-> TRUE, geoms |-> <<>>]}
        \cup {[none |-> FALSE, valid |-> TRUE, geoms |-> g] : g \in ValidGeomLists}
        \cup {[none |-> FALSE, valid |-> FALSE, geoms |-> <<PolygonGeom(FlatRing, <<>>)>>]}

-----------------------------------------------------------------------------
(* _triangulate_stencil_shape, lines 354-392: the input for the triangle    *)
(* library.                                                                 *)

RECURSIVE Concat(_)
Concat(seqs) == IF seqs = <<>> THEN <<>> ELSE Head(seqs) \o Concat(Tail(seqs))

\* vertices.index(x)
IndexOf(ordered, x) == (CHOOSE k \in DOMAIN ordered : ordered[k] = x) - 1

\* the polygons of the shape (line 365)
PolygonsOf(shp) == SelectSeq(shp.geoms, LAMBDA g : g.polygon)

\* the rings of a polygon: the exterior, then the interiors
RingsOf(geom) == <<geom.exterior>> \o geom.interiors

\* every ring of the shape, and every interior ring of the shape
AllRings(shp) == Concat([k \in DOMAIN PolygonsOf(shp) |-> RingsOf(PolygonsOf(shp)[k])])
HoleRings(shp) == Concat([k \in DOMAIN PolygonsOf(shp) |-> PolygonsOf(shp)[k].interiors])

\* lines 367-371
CollectVertices(shp) == OrderedSetOf(Concat(AllRings(shp)))

\* add_segments (lines 358-360) for one ring
RingSegments(verts, coords_list) ==
    [idx \in 1..(Len(coords_list) - 1) |->
        <<IndexOf(verts, coords_list[idx]), IndexOf(verts, coords_list[idx + 1])>>]

\* lines 374-376
CollectSegments(shp) ==
    LET verts == CollectVertices(shp)
        rings == AllRings(shp)
    IN  OrderedSetOf(Concat([k \in DOMAIN rings |-> RingSegments(verts, rings[k])]))

InputIsEmpty_Never(verts, segments) == FALSE

\* the test of line 384
InputIsEmpty(verts, segments) == Len(verts) <= 0 \/ Len(segments) <= 0

\* lines 379-382: hole_pts, given the representative point of each interior
HolePts(hole_pts) == OrderedSetOf(hole_pts)

\* what _triangulate_stencil_shape has built when it reaches line 384
TriangleInput(shp, hole_pts) ==
    LET verts == CollectVertices(shp)
        segments == CollectSegments(shp)
    IN  [none     |-> InputIsEmpty(verts, segments),
         vertices |-> verts,
         segments |-> segments,
         holes    |-> HolePts(hole_pts)]

-----------------------------------------------------------------------------
(* triangle.triangulate(shape_for_triangle_lib, 'p'), line 395: the         *)
(* library triangulates the convex hull of the vertices so that every       *)
(* segment is an edge, then removes the triangles it reaches from outside   *)
(* the segments and from each hole point without crossing a segment.        *)
(* Vertices are numbered from 0.  A hole point is kept as three times its   *)
(* coordinates, so that the centre of a triangle is a pair of integers.     *)

\* twice the signed area of the triangle a, b, c
Orient(a, b, c) == (b[1] - a[1]) * (c[2] - a[2]) - (b[2] - a[2]) * (c[1] - a[1])

\* the same for a point h given as three times its coordinates
Orient3(a, b, h) ==
    (b[1] - a[1]) * (h[2] - 3 * a[2]) - (b[2] - a[2]) * (h[1] - 3 * a[1])

\* p lies on the segment a b, between its ends
Between(p, a, b) ==
    /\ Orient(a, b, p) = 0
    /\ (p[1] - a[1]) * (b[1] - p[1]) + (p[2] - a[2]) * (b[2] - p[2]) > 0

\* the segments a b and c d cross in one inner point of both
Crosses(a, b, c, d) ==
    /\ Orient(a, b, c) * Orient(a, b, d) < 0
    /\ Orient(c, d, a) * Orient(c, d, b) < 0

VertexIds(verts) == 0..(Len(verts) - 1)

EdgeEnds(verts, e) ==
    LET i == CHOOSE x \in e : \A y \in e : x <= y
        j == CHOOSE x \in e : \A y \in e : y <= x
    IN  <<verts[i + 1], verts[j + 1]>>

\* the edge e can join a triangulation that has the edges in edges
Admissible(verts, edges, e) ==
    LET ends == EdgeEnds(verts, e)
    IN  /\ \A v \in VertexIds(verts) \ e : ~Between(verts[v + 1], ends[1], ends[2])
        /\ \A f \in edges :
              f \cap e = {} =>
                  ~Crosses(ends[1], ends[2],
                           EdgeEnds(verts, f)[1], EdgeEnds(verts, f)[2])

\* the edges from the vertex j to the vertices before it: they cannot cross
\* one another, so that they are tried together
AddVertex(verts, edges, j) ==
    edges \cup {e \in {{i, j} : i \in 0..(j - 1)} :
                   e \notin edges /\ Admissible(verts, edges, e)}

\* the vertices first..last are added one after the other
RECURSIVE AddVertices(_, _, _, _)
AddVertices(verts, edges, first, last) ==
    IF first > last THEN edges
    ELSE IF first = last THEN AddVertex(verts, edges, first)
    ELSE LET middle == (first + last) \div 2
             lower == AddVertices(verts, edges, first, middle)
         IN  IF lower = {} THEN AddVertices(verts, {}, middle + 1, last)
             ELSE AddVertices(verts, lower, middle + 1, last)

\* the segments as edges
SegmentEdges(segments) ==
    {e \in {{segments[k][1], segments[k][2]} : k \in DOMAIN segments} :
        Cardinality(e) = 2}

\* the edges of the triangulation of the convex hull
HullEdges(verts, segments) ==
    AddVertices(verts, SegmentEdges(segments), 1, Len(verts) - 1)

\* h, three times a point, lies inside the triangle t
InTriangle3(verts, t, h) ==
    \E a \in t : \E b \in t \ {a} : \E c \in t \ {a, b} :
        /\ Orient3(verts[a + 1], verts[b + 1], h) > 0
        /\ Orient3(verts[b + 1], verts[c + 1], h) > 0
        /\ Orient3(verts[c + 1], verts[a + 1], h) > 0

\* the triangles of the triangulation of the convex hull
HullTriangles(verts, segments) ==
    LET edges == HullEdges(verts, segments)
        corners == {e \cup {v} : e \in edges, v \in VertexIds(verts)}
    IN  {t \in corners :
            /\ Cardinality(t) = 3
            /\ \A e \in SUBSET t : Cardinality(e) = 2 => e \in edges
            /\ \E a \in t : \E b \in t \ {a} : \E c \in t \ {a, b} :
                  Orient(verts[a + 1], verts[b + 1], verts[c + 1]) # 0
            /\ \A v \in VertexIds(verts) \ t :
                  ~InTriangle3(verts, t, <<3 * verts[v + 1][1], 3 * verts[v + 1][2]>>)}

\* three times the centre of the triangle t
Centre3(verts, t) ==
    LET a == CHOOSE x \in t : \A y \in t : x <= y
        c == CHOOSE x \in t : \A y \in t : y <= x
        b == CHOOSE x \in t : x # a /\ x # c
    IN  <<verts[a + 1][1] + verts[b + 1][1] + verts[c + 1][1],
          verts[a + 1][2] + verts[b + 1][2] + verts[c + 1][2]>>

SidesOf(t) == {e \in SUBSET t : Cardinality(e) = 2}

\* the triangles the library removes first: those with an edge on the
\* convex hull that is no segment, and those that hold a hole point
Infected(hull, verts, segments, holes) ==
    {t \in hull :
        \/ \E e \in SidesOf(t) :
              /\ e \notin SegmentEdges(segments)
              /\ Cardinality({u \in hull : e \subseteq u}) = 1
        \/ \E k \in DOMAIN holes : InTriangle3(verts, t, holes[k])}

\* the removal spreads over every edge that is no segment
RECURSIVE Spread(_, _, _)
Spread(hull, segment_edges, eaten) ==
    LET more == {t \in hull \ eaten :
                    \E u \in eaten :
                        \E e \in SidesOf(t) : e \subseteq u /\ e \notin segment_edges}
    IN  IF more = {} THEN eaten ELSE Spread(hull, segment_edges, eaten \cup more)

\* a triangle as the library returns it: counter-clockwise
CcwTriangle(verts, t) ==
    LET a == CHOOSE x \in t : \A y \in t : x <= y
        c == CHOOSE x \in t : \A y \in t : y <= x
        b == CHOOSE x \in t : x # a /\ x # c
    IN  IF Orient(verts[a + 1], verts[b + 1], verts[c + 1]) > 0
        THEN <<a, b, c>> ELSE <<a, c, b>>

\* the triangles in the order of their corners
TriangleList(verts, triangles) ==
    LET n == Len(verts)
        key(t) == LET u == CcwTriangle(verts, t)
                  IN  (u[1] * n + Min2({u[2], u[3]})) * n + Max2({u[2], u[3]})
        sorted == [i \in 1..Cardinality(triangles) |->
                      CcwTriangle(verts,
                                  CHOOSE t \in triangles :
                                      Cardinality({u \in triangles : key(u) < key(t)})
                                          = i - 1)]
    IN  SubSeq(sorted, 1, Cardinality(triangles))

\* triangulated_shape['triangles']
Triangulate(input) ==
    LET hull == HullTriangles(input.vertices, input.segments)
        eaten == Spread(hull, SegmentEdges(input.segments),
                        Infected(hull, input.vertices, input.segments, input.holes))
    IN  TriangleList(input.vertices, hull \ eaten)

\* interior.representative_point() of Polygon(interior.coords), line 381:
\* some point inside the ring, the hole filled.  The points tried are the
\* centres of the triangles inside the ring.
RepresentativePoints(shp, ring) ==
    LET verts == CollectVertices(shp)
        hull == HullTriangles(verts, CollectSegments(shp))
    IN  {Centre3(verts, t) : t \in
            {u \in hull :
                \/ \A k \in 1..(Len(ring) - 1) :
                      Orient3(ring[k], ring[k + 1], Centre3(verts, u)) > 0
                \/ \A k \in 1..(Len(ring) - 1) :
                      Orient3(ring[k], ring[k + 1], Centre3(verts, u)) < 0}}

\* one representative point for each interior ring of the shape
RECURSIVE PointsForRings(_, _)
PointsForRings(shp, rings) ==
    IF rings = <<>> THEN {<<>>}
    ELSE {<<p>> \o rest : p \in RepresentativePoints(shp, Head(rings)),
                          rest \in PointsForRings(shp, Tail(rings))}

HolePointChoices(shp) == PointsForRings(shp, HoleRings(shp))

-----------------------------------------------------------------------------
(* _stencil_shape_to_stencil_mesh for one shape, called from the loop of    *)
(* carvers_to_stencil_meshes (lines 53-58) in a scene that holds the target *)
(* only.                                                                    *)

stencilFixed == <<pollVars, reports, prop_pieces_to_keep, prop_union_carves, prop_delete_carvers,
                  orig_target, carver_objs, exec_stencil_mesh_objs, targets, new_objs,
                  applied_ops, result, carver_idx, stencil_shapes, shape_idx, carver_log,
                  built,
                  projVars, walkVars, pathVars, far_dist, vertices, reprojected,
                  stencil_shape, is_orthographic, tuple_order>>

InitStencil ==
    /\ stencil_shape \in ShapeInputs
    /\ PollIdle
    /\ shape_for_triangle_lib = NoTriangleInput
    /\ stencil_mesh_obj = NoReturn
    /\ is_orthographic \in BOOLEAN
    /\ bpy = Scene(<<>>, "OBJECT") /\ next_id = 2
    /\ prop_pieces_to_keep = "ALL" /\ prop_union_carves = FALSE
    /\ prop_delete_carvers = FALSE
    /\ orig_target = 0 /\ carver_objs = <<>> /\ exec_stencil_mesh_objs = <<>>
    /\ targets = <<>> /\ new_objs = <<>> /\ applied_ops = <<>> /\ result = "none"
    /\ reports = <<>>
    /\ carver_idx = 0 /\ stencil_shapes = <<>> /\ shape_idx = 0
    /\ stencil_mesh_objs = <<>> /\ exc = "none"
    /\ carver_log = <<>> /\ built = <<>> /\ partial = NoPartial
    /\ temp_objs = {} /\ temp_meshes = {}
    /\ pc = "stencil"
    /\ ProjIdle /\ WalkIdle /\ MeshIdle /\ LiftIdle /\ PathIdle

\* lines 263-272 with _triangulate_stencil_shape (lines 349-395)
TriangulateStencilShape ==
    /\ pc = "stencil"
    /\ IF stencil_shape.none
       THEN /\ stencil_mesh_obj' = [returned |-> TRUE, obj |-> 0]
            /\ pc' = "stencil_returned"
            /\ UNCHANGED <<shape_for_triangle_lib, vertices_2d, triangles_2d,
                           num_vertices_2d, exc>>
       ELSE \E hole_pts \in HolePointChoices(stencil_shape) :
              LET input == TriangleInput(stencil_shape, hole_pts)
              IN  /\ shape_for_triangle_lib' = input
                  /\ IF input.none
                     THEN /\ stencil_mesh_obj' = [returned |-> TRUE, obj |-> 0]
                          /\ pc' = "stencil_returned"
                          /\ UNCHANGED <<vertices_2d, triangles_2d, num_vertices_2d,
                                         exc>>
                     ELSE \E has_triangles \in
                                IF Triangulate(input) = <<>> THEN BOOLEAN ELSE {TRUE} :
                            IF has_triangles
                            THEN /\ vertices_2d' = input.vertices
                                 /\ triangles_2d' = Triangulate(input)
                                 /\ num_vertices_2d' = Len(input.vertices)
                                 /\ pc' = "geometry"
                                 /\ UNCHANGED <<stencil_mesh_obj, exc>>
                            ELSE /\ exc' = "KeyError"
                                 /\ pc' = "stencil_raised"
                                 /\ UNCHANGED <<stencil_mesh_obj, vertices_2d,
                                                triangles_2d, num_vertices_2d>>
    /\ UNCHANGED <<bpy, next_id, stencil_mesh_objs, partial, temp_objs, temp_meshes,
                   mesh_data, stencilFixed>>

\* lines 309-339: the mesh datablock and the object
CreateStencilMesh ==
    /\ pc = "pydata"
    /\ shape_for_triangle_lib # NoTriangleInput
    /\ \E event \in {"ok", "mesh", "obj"} :
         LET r == StencilShapeToStencilMesh(bpy, next_id, event)
         IN  /\ bpy' = r.bpy
             /\ next_id' = next_id + 2
             /\ temp_objs' = temp_objs \cup (IF r.obj # 0 THEN {r.obj} ELSE {})
             /\ temp_meshes' = temp_meshes \cup (IF r.mesh # 0 THEN {r.mesh} ELSE {})
             /\ IF r.raised
                THEN /\ partial' = [mesh |-> r.mesh, obj |-> r.obj]
                     /\ exc' = "MeshError"
                     /\ pc' = "stencil_raised"
                     /\ UNCHANGED stencil_mesh_obj
                ELSE /\ stencil_mesh_obj' = [returned |-> TRUE, obj |-> r.obj]
                     /\ pc' = "stencil_returned"
                     /\ UNCHANGED <<partial, exc>>
    /\ UNCHANGED <<stencil_mesh_objs, shape_for_triangle_lib, vertices_2d, meshVars,
                   stencilFixed>>

\* lines 55-58: a stencil that is not None joins the list, the list is returned
StencilReturn ==
    /\ pc = "stencil_returned"
    /\ stencil_mesh_objs' = IF stencil_mesh_obj.obj # 0
                            THEN Append(stencil_mesh_objs, stencil_mesh_obj.obj)
                            ELSE stencil_mesh_objs
    /\ pc' = "ctsm_returned"
    /\ UNCHANGED <<bpy, next_id, exc, partial, temp_objs, temp_meshes,
                   shape_for_triangle_lib, stencil_mesh_obj, vertices_2d, meshVars,
                   stencilFixed>>

\* lines 60-65
StencilExcept ==
    /\ pc = "stencil_raised"
    /\ bpy' = CtsmCleanup(bpy, stencil_mesh_objs)
    /\ pc' = "ctsm_raised"
    /\ UNCHANGED <<next_id, stencil_mesh_objs, exc, partial, temp_objs, temp_meshes,
                   shape_for_triangle_lib, stencil_mesh_obj, vertices_2d, meshVars,
                   stencilFixed>>

NextStencil ==
    \/ TriangulateStencilShape
    \/ BuildMeshData
    \/ CreateStencilMesh
    \/ StencilReturn
    \/ StencilExcept

SpecStencil == InitStencil /\ [][NextStencil]_vars

-----------------------------------------------------------------------------
(* Properties of _triangulate_stencil_shape and                             *)
(* _stencil_shape_to_stencil_mesh                                           *)

\* _stencil_shape_to_stencil_mesh has been left, by return or by exception
StencilLeft == pc \in {"stencil_returned", "stencil_raised", "ctsm_returned", "ctsm_raised"}

\* the shape is None, or no vertex or no segment was collected from it
NotTriangulable ==
    \/ stencil_shape.none
    \/ shape_for_triangle_lib.vertices = <<>>
    \/ shape_for_triangle_lib.segments = <<>>

\* C15: when the shape is None or the collected vertex set or segment set is
\* empty, _triangulate_stencil_shape returns None, _stencil_shape_to_stencil_mesh
\* returns None and has created no mesh datablock and no object, and
\* carvers_to_stencil_meshes returns a list without the shape and raises nothing.
C15_NotTriangulableIsSkipped ==
    (StencilLeft /\ NotTriangulable) =>
        /\ shape_for_triangle_lib.none
        /\ stencil_mesh_obj = [returned |-> TRUE, obj |-> 0]
        /\ bpy = Scene(<<>>, "OBJECT")
        /\ temp_meshes = {} /\ temp_objs = {}
        /\ exc = "none"
        /\ pc \in {"stencil_returned", "ctsm_returned"}
        /\ pc = "ctsm_returned" => stencil_mesh_objs = <<>>

\* C15: a shape that is not None and holds a geometry, but no polygon with
\* coordinates, has been skipped
C15_Witness ==
    /\ pc = "ctsm_returned"
    /\ ~stencil_shape.none /\ stencil_shape.geoms # <<>>
    /\ shape_for_triangle_lib.vertices = <<>>
    /\ stencil_mesh_objs = <<>>

\* the library was called and returned no triangle
EmptyTriangulation ==
    /\ ~stencil_shape.none
    /\ ~shape_for_triangle_lib.none
    /\ Triangulate(shape_for_triangle_lib) = <<>>

InputBuilt == pc # "stencil" /\ ~stencil_shape.none

\* the vertex list has no repeated coordinate
VerticesDistinct ==
    \A i, j \in DOMAIN shape_for_triangle_lib.vertices :
        shape_for_triangle_lib.vertices[i] = shape_for_triangle_lib.vertices[j] => i = j

\* every pair of consecutive coordinates of every ring has its segment, and
\* every segment index is a position of the vertex list
SegmentsCoverRings ==
    LET verts == shape_for_triangle_lib.vertices
        segments == shape_for_triangle_lib.segments
        rings == AllRings(stencil_shape)
    IN  /\ \A k \in DOMAIN segments :
              segments[k][1] \in VertexIds(verts) /\ segments[k][2] \in VertexIds(verts)
        /\ \A r \in DOMAIN rings : \A idx \in 1..(Len(rings[r]) - 1) :
              \E k \in DOMAIN segments :
                  /\ verts[segments[k][1] + 1] = rings[r][idx]
                  /\ verts[segments[k][2] + 1] = rings[r][idx + 1]

\* C17: the input built for the triangle library has a vertex list without
\* repeated coordinates, a segment for every pair of consecutive coordinates of
\* every ring, with indices in range, and exactly one hole point per hole ring.
C17_TriangleInputWellFormed ==
    InputBuilt =>
        /\ VerticesDistinct
        /\ SegmentsCoverRings
        /\ Len(shape_for_triangle_lib.holes) = Len(HoleRings(stencil_shape))

\* the points of a closed ring, the repeated closing point counted once
RingPoints(ring) == IF ring = <<>> THEN 0 ELSE Len(ring) - 1

RECURSIVE SumRingPoints(_)
SumRingPoints(rings) ==
    IF rings = <<>> THEN 0 ELSE RingPoints(Head(rings)) + SumRingPoints(Tail(rings))

\* C18: in every triangulation produced from a stencil shape, the number of
\* edges that belong to exactly one triangle equals the number of points of
\* all the rings of the shape, exterior rings and hole rings.
C18_BoundaryEdgesEqualRingPoints ==
    (pc \in {"geometry", "pydata"} /\ stencil_shape.valid) =>
        Cardinality(BoundaryEdges(triangles_2d)) = SumRingPoints(AllRings(stencil_shape))

-----------------------------------------------------------------------------
(* Properties of VIEW_CARVE_OT_stencil.execute and _separate_obj            *)

\* the objects of the scene that were not there when execute was called
NewObjects == {id \in ObjectIds(bpy) : id > Len(carver_objs) + 1}

\* no object that execute created is left when it has returned
NoNewObjectAtDone == pc = "done" => NewObjects = {}

\* C21: with prop_union_carves true execute results in at most one new object,
\* whatever the carvers and pieces_to_keep; with prop_union_carves false and
\* pieces_to_keep = ALL several carvers can result in more than one new object
\* (the case taken is the one in which every one of several carvers gave a
\* stencil).
C21_UnionBoundsNewObjects ==
    pc = "done" =>
        /\ prop_union_carves => Cardinality(NewObjects) <= 1
        /\ (~prop_union_carves /\ prop_pieces_to_keep = "ALL"
                /\ Len(exec_stencil_mesh_objs) >= 2)
              => Cardinality(NewObjects) > 1

\* a boolean modifier of the given operation, applied to target with obj
BooleanOp(target, obj, operation) ==
    [target |-> target, obj |-> obj, operation |-> operation]

\* C22: _separate_obj with pieces_to_keep = ALL applies DIFFERENCE to the
\* target and INTERSECT to a newly linked object that holds a copy of the
\* target's mesh, and returns that object; with DIFFERENCE or INTERSECTION it
\* applies that one operation to the target, creates no object and returns None.
C22_SeparateObjAppliesOperations ==
    [][(pc = "apply" /\ exec_stencil_mesh_objs # <<>>) =>
          /\ exc' = exc /\ pc' # "except"
          /\ IF prop_pieces_to_keep = "ALL"
             THEN \E new_target \in bpy'.objects \ bpy.objects :
                    /\ new_target.data \in MeshIds(bpy') \ MeshIds(bpy)
                    /\ applied_ops' = applied_ops \o
                          <<BooleanOp(targets[1], exec_stencil_mesh_objs[1], "DIFFERENCE"),
                            BooleanOp(new_target.id, exec_stencil_mesh_objs[1], "INTERSECT")>>
             ELSE /\ bpy'.objects = bpy.objects
                  /\ applied_ops' = Append(applied_ops,
                        BooleanOp(targets[1], exec_stencil_mesh_objs[1],
                                  FirstOperation(prop_pieces_to_keep)))]_vars

\* the mesh objects that bpy.ops.object.convert made from non-mesh carvers:
\* the temporaries that are not stencils
ConvertedObjs == temp_objs \ SeqRange(stencil_mesh_objs)

\* C23: after carvers_to_stencil_meshes has returned normally, with
\* delete_carvers no carver is left in the scene, the carvers without a shape
\* included; without delete_carvers every carver is still in the scene and
\* every mesh object made by converting a non-mesh carver has been removed.
C23_CarversAfterReturn ==
    pc = "ctsm_returned" =>
        IF prop_delete_carvers
        THEN SeqRange(carver_objs) \cap ObjectIds(bpy) = {}
        ELSE /\ SeqRange(carver_objs) \subseteq ObjectIds(bpy)
             /\ ConvertedObjs \cap ObjectIds(bpy) = {}

\* both cases: a converted non-mesh carver that is kept, and a deleted carver
\* without a shape
C23_Witness ==
    /\ pc = "ctsm_returned"
    /\ \/ ~prop_delete_carvers /\ ConvertedObjs # {}
       \/ prop_delete_carvers /\ \E k \in DOMAIN carver_log : carver_log[k].outcome = "none"

-----------------------------------------------------------------------------
(* VIEW_CARVE_OT_stencil.poll (lines 53-80) on any context, followed by the *)
(* first lines of execute when poll allows the operator to run.             *)

\* poll is run on scenes of at most MaxPollObjects objects
MaxPollObjects == 3
\* the active object has at most MaxModifiers modifiers
MaxModifiers == 1

\* _SUPPORTED_CARVER_TYPES, line 17
SUPPORTED_CARVER_TYPES == {"MESH", "CURVE", "SURFACE", "FONT", "GPENCIL"}

\* the types of the objects of the scenes: two supported ones and a light
PollObjectTypes == {"MESH", "CURVE", "LIGHT"}

TooFewSelected_None(num_selected) == num_selected < 1

\* the test of line 64
TooFewSelected(num_selected) == num_selected < 2

\* what poll returns for the context
Poll(ctx, b) ==
    IF \/ ~ctx.region_data
       \/ ~ctx.scene
       \/ b.active = 0
       \/ TooFewSelected(Cardinality(b.selected))
       \/ b.mode # "OBJECT"
    THEN FALSE
    ELSE IF ObjectOf(b, b.active).type # "MESH" \/ ctx.modifiers # 0
    THEN FALSE
    ELSE \A id \in b.selected :
            id # b.active => ObjectOf(b, id).type \in SUPPORTED_CARVER_TYPES

\* a scene of Len(types) objects, any of them selected, any or none active
PollScene(types, selected, active, mode) ==
    [objects  |-> {[id |-> k, type |-> types[k],
                    data |-> IF types[k] = "MESH" THEN k ELSE 0] : k \in DOMAIN types},
     meshes   |-> {[id |-> k, name |-> "mesh"] :
                   k \in {j \in DOMAIN types : types[j] = "MESH"}},
     selected |-> selected,
     active   |-> active,
     mode     |-> mode]

InitPoll ==
    /\ \E n \in 0..MaxPollObjects :
         \E types \in [1..n -> PollObjectTypes], selected \in SUBSET (1..n),
            active \in 0..n, mode \in {"OBJECT", "EDIT"} :
              /\ bpy = PollScene(types, selected, active, mode)
              /\ next_id = n + 1
              /\ context \in [region_data : BOOLEAN, scene : BOOLEAN,
                              modifiers : IF active = 0 THEN {0} ELSE 0..MaxModifiers]
    /\ poll_result = "none"
    /\ prop_pieces_to_keep = "ALL" /\ prop_union_carves = FALSE
    /\ prop_delete_carvers = FALSE /\ is_orthographic = FALSE
    /\ orig_target = 0 /\ carver_objs = <<>> /\ exec_stencil_mesh_objs = <<>>
    /\ targets = <<>> /\ new_objs = <<>> /\ applied_ops = <<>> /\ result = "none"
    /\ reports = <<>>
    /\ carver_idx = 0 /\ stencil_shapes = <<>> /\ shape_idx = 0
    /\ stencil_mesh_objs = <<>> /\ exc = "none"
    /\ carver_log = <<>> /\ built = <<>> /\ partial = NoPartial
    /\ temp_objs = {} /\ temp_meshes = {}
    /\ pc = "poll"
    /\ ProjIdle /\ WalkIdle /\ MeshIdle /\ GeomIdle

\* Blender calls poll; execute can be called only if it returned True
PollCall ==
    /\ pc = "poll"
    /\ poll_result' = IF Poll(context, bpy) THEN "True" ELSE "False"
    /\ pc' = IF Poll(context, bpy) THEN "execute" ELSE "poll_failed"
    /\ UNCHANGED <<context, bpy, next_id, prop_pieces_to_keep, prop_union_carves,
                   prop_delete_carvers, orig_target, carver_objs, exec_stencil_mesh_objs,
                   targets, new_objs, applied_ops, result, reports, carver_idx, stencil_shapes,
                   shape_idx, stencil_mesh_objs, exc, carver_log, built, partial,
                   temp_objs, temp_meshes, projVars, walkVars, meshVars, geomVars,
                   is_orthographic>>

NextPoll == PollCall \/ ExecuteBegin

SpecPoll == InitPoll /\ [][NextPoll]_vars

\* the conditions on the objects: Object Mode, an active mesh object without
\* modifiers, at least two selected objects, every selected object other than
\* the active one of a supported type
ObjectsAllowCarve ==
    /\ bpy.mode = "OBJECT"
    /\ bpy.active # 0
    /\ \E o \in bpy.objects : o.id = bpy.active /\ o.type = "MESH"
    /\ context.modifiers = 0
    /\ Cardinality(bpy.selected) >= 2
    /\ \A o \in bpy.objects :
          (o.id \in bpy.selected /\ o.id # bpy.active)
              => o.type \in {"MESH", "CURVE", "SURFACE", "FONT", "GPENCIL"}

\* C24 as stated: poll returns True exactly when the conditions on the
\* objects hold, and then execute's carver list is not empty.
C24_Original_PollExactlyWhenObjectsAllow ==
    /\ poll_result # "none" => (poll_result = "True" <=> ObjectsAllowCarve)
    /\ pc = "ctsm" => carver_objs # <<>>

\* C24: poll returns True exactly when the context has region data and a
\* scene and the conditions on the objects hold; whenever poll has returned
\* True, the carver list execute builds is not empty.
C24_PollExactlyWhenViewportAndObjectsAllow ==
    /\ poll_result # "none" =>
          (poll_result = "True"
              <=> context.region_data /\ context.scene /\ ObjectsAllowCarve)
    /\ pc = "ctsm" => poll_result = "True" /\ carver_objs # <<>>

\* poll returned True for an active object that is not selected, and execute
\* has built its carver list
C24_Witness ==
    /\ pc = "ctsm" /\ poll_result = "True"
    /\ orig_target \notin bpy.selected
    /\ Len(carver_objs) >= 2

\* the new target objects _separate_obj has created: the one of its failing
\* call, and those it returned
SeparateObjCreated ==
    (IF exc = "TypeError" /\ prop_pieces_to_keep = "ALL" THEN {next_id - 2} ELSE {})
        \cup SeqRange(new_objs)

\* C25: when a step of execute has raised, execute has reported an ERROR and
\* returned CANCELLED, and no new target object created during the call is
\* left in the scene, the one made inside the failing _separate_obj included.
C25_RaiseCancelsAndRemovesNewObjects ==
    (pc = "done" /\ exc # "none") =>
        /\ result = "CANCELLED"
        /\ reports = <<"ERROR">>
        /\ SeparateObjCreated \cap ObjectIds(bpy) = {}

\* _separate_obj had copied the target before apply_boolean_op raised
C25_Witness ==
    /\ pc = "done" /\ exc = "TypeError" /\ prop_pieces_to_keep = "ALL"
    /\ SeparateObjCreated # {}

\* C26: when the original target has been found with zero vertices, execute
\* has removed it and completed with FINISHED, and the active object is None.
C26_EmptyTargetRemovedAndFinished ==
    (pc = "done" /\ orig_target = 0) =>
        /\ targets[1] \notin ObjectIds(bpy)
        /\ result = "FINISHED"
        /\ bpy.active = 0

\* C27: after execute has returned FINISHED, the selected objects are the
\* surviving new objects and the original target if it survives, nothing
\* else, and the active object is the original target if it survives, and
\* None (0) otherwise.
C27_FinalSelectionAfterFinished ==
    (pc = "done" /\ result = "FINISHED") =>
        /\ bpy.selected = (SeqRange(new_objs) \cap ObjectIds(bpy))
                              \cup ({orig_target} \cap ObjectIds(bpy))
        /\ bpy.active = IF orig_target \in ObjectIds(bpy) THEN orig_target ELSE 0

\* execute has finished with a carver still in the scene, which was selected
\* when execute began
C27_Witness ==
    /\ pc = "done" /\ result = "FINISHED"
    /\ \E k \in DOMAIN carver_objs : carver_objs[k] \in ObjectIds(bpy)

\* _carver_to_stencil_shape has raised while extracting the shape of a carver
ExtractionRaised ==
    \E k \in DOMAIN carver_log :
        carver_log[k].outcome \in {"behind", "error", "convert_failed"}

\* the target object is in the scene with the mesh it had when execute began
TargetUnchanged ==
    /\ [id |-> orig_target, type |-> "MESH", data |-> orig_target] \in bpy.objects
    /\ [id |-> orig_target, name |-> "target"] \in bpy.meshes

\* C28: once carvers_to_stencil_meshes has raised during the extraction of a
\* shape, execute goes to its handlers without entering the loop over the
\* stencils: no boolean operation is applied, the target object keeps its
\* mesh and gets no modifier, and after the call execute has returned
\* CANCELLED and no new target object exists.
C28_ExtractionRaiseAppliesNothing ==
    ExtractionRaised =>
        /\ pc \in {"ctsm_raised", "finally", "done"}
        /\ targets = <<>>
        /\ applied_ops = <<>>
        /\ TargetUnchanged
        /\ pc = "done" =>
              /\ result = "CANCELLED"
              /\ SeparateObjCreated \cap ObjectIds(bpy) = {}
              /\ NewObjects = {}

\* the behind-camera error on the second carver, after the first one was
\* processed, and execute has returned
C28_Witness ==
    /\ pc = "done"
    /\ Len(carver_log) = 2
    /\ carver_log[2].outcome = "behind"

====
